---- MODULE Spec2Model ----
(***************************************************************************)
(* Blink-triggered puff rig firmware (XIAO ESP32S3 + DRV8833 + VCNL4040):  *)
(* the integrated sketch with blink detection and pump/valve sequencing.   *)
(*                                                                         *)
(* One loop() iteration is one action.  The millisecond counter is read    *)
(* once per iteration.  uint32_t values are held in two's complement       *)
(* (0 .. 2^31-1 as themselves, 2^31 .. 2^32-1 as value - 2^32), so that    *)
(* wrapping arithmetic and the (int32_t) casts of the sketch are exact at  *)
(* their real width.  float quantities are held in fixed point.            *)
(***************************************************************************)
EXTENDS Integers, Naturals, Sequences, FiniteSets, TLC

\* ------------------------------------------------------------ uint32_t
\* a + b modulo 2^32
AddU32(a, b) ==
  IF a >= 0 /\ b >= 0 /\ a > 2147483647 - b
    THEN ((a - 2147483647) + (b - 2147483647)) - 2
  ELSE IF a < 0 /\ b < 0 /\ a < (-2147483647 - 1) - b
    THEN ((a + 2147483647) + (b + 2147483647)) + 2
  ELSE a + b

\* a - b modulo 2^32
SubU32(a, b) ==
  IF a >= 0 /\ b < 0 /\ a > 2147483647 + b
    THEN (((a - 2147483647) - (b + 1)) - 2147483647) - 1
  ELSE IF a < 0 /\ b > 0 /\ a < (-2147483647 - 1) + b
    THEN (((a + 2147483647) - (b - 1)) + 2147483647) + 1
  ELSE a - b

\* unsigned a < b, unsigned a >= b
LtU32(a, b) == IF (a >= 0) = (b >= 0) THEN a < b ELSE a >= 0
GeU32(a, b) == ~LtU32(a, b)

\* (int32_t)(a - b) >= 0 : the wraparound-safe "deadline b has passed at a"
Reached(a, b) == SubU32(a, b) >= 0

\* C integer division truncates toward zero
TruncDiv(a, b) == IF a >= 0 THEN a \div b ELSE -((-a) \div b)

\* ------------------------------------------------------------ tunables
precharge_ms == 220
puff_ms      == 50
guard_ms     == 350
duty_run     == 1000
duty_idle    == 0
ramp_time_ms == 60
DUTY_MAX     == 1023

SEQ_FRAMES        == 16
FRAME_SLOTS       == 4
SLOT_DURATION_MS  == 400
FRAME_DURATION_MS == SLOT_DURATION_MS * FRAME_SLOTS
SEQUENCE_LEAD_MS  == 200
BUFFER_SIZE       == 32

PuffStates == {"REST", "PRECHARGE", "PUFF", "RECOVER"}

\* ------------------------------------------------------------ state
VARIABLES
  millis,            \* the millisecond counter (uint32_t)
  sequenceEvents,    \* SequenceEvent[SEQ_FRAMES]
  sequenceActive, sequenceIndex, sequenceStartMs,
  puffState, stateStart,
  rampActive, rampFrom, rampTo, rampStart, rampDur,
  pumpDuty,          \* last duty written by ledcWrite
  valveOpen,         \* V_BIN1 level
  buffer,            \* handleSerialInput's static buffer[0 .. len-1]
  serialOut,         \* SEQ lifecycle lines printed since boot
  visits,            \* states entered since the last accepted START
  puffFrames,        \* sequenceIndex at each entry of PUFF since that START
  recoverSince,      \* << millis() at the entry of RECOVER >> until the next PRECHARGE
                     \* or the end of the sequence
  lastSampleMs, proxSample, proxValid,
  det,               \* presence gate, baseline, confidence and blink detector globals
  obs,               \* what an observer of the sample stream has seen (history)
  sensor,            \* the proximity signal offered to the sensor (environment)
  hostLines,         \* lines the host has written so far
  lastLine,          \* the bytes the host wrote for this iteration to read
  wire,              \* the bytes the host has written since its last line end
  halted,            \* setup() is spinning in while (1) after the sensor failed
  elapsed,           \* milliseconds since boot (bounds the run)
  controlState,      \* the host controller's controlState object
  serialPort,        \* the host controller's serial port is open
  hostNow,           \* Date.now() on the host
  hostObs,           \* what the host controller handled last and the commands
                     \* it wrote in doing so, and the run of leaving STATUS
                     \* lines seen so far (history)
  rig,               \* the rig as the host sees it: a sequence is running, and
                     \* the SEQ lines on their way to the host
  pumpTest           \* the pump exerciser's globals, its clock and its last command

fwVars == << millis, sequenceEvents, sequenceActive, sequenceIndex, sequenceStartMs,
            puffState, stateStart, rampActive, rampFrom, rampTo, rampStart, rampDur,
            pumpDuty, valveOpen, buffer, serialOut, visits, puffFrames, recoverSince,
            lastSampleMs, proxSample, proxValid, det, obs, sensor, hostLines,
            lastLine, wire, halted, elapsed >>

hostVars == << controlState, serialPort, hostNow, hostObs, rig >>

seqVars == << sequenceEvents, sequenceActive, sequenceIndex, sequenceStartMs,
              puffState, stateStart, rampActive, rampFrom, rampTo, rampStart,
              rampDur, pumpDuty, valveOpen, buffer, serialOut, visits,
              puffFrames, recoverSince >>

\* the sequencer's globals as one value, so that the helpers compose
Sequencer ==
  [ sequenceEvents |-> sequenceEvents, sequenceActive |-> sequenceActive,
    sequenceIndex |-> sequenceIndex, sequenceStartMs |-> sequenceStartMs,
    puffState |-> puffState, stateStart |-> stateStart,
    rampActive |-> rampActive, rampFrom |-> rampFrom, rampTo |-> rampTo,
    rampStart |-> rampStart, rampDur |-> rampDur, pumpDuty |-> pumpDuty,
    valveOpen |-> valveOpen, buffer |-> buffer, serialOut |-> serialOut,
    visits |-> visits, puffFrames |-> puffFrames, recoverSince |-> recoverSince ]

\* ------------------------------------------------------------ pump ramp
pumpSetDuty(s, duty) ==
  [s EXCEPT !.pumpDuty = IF duty < 0 THEN 0
                         ELSE IF duty > DUTY_MAX THEN DUTY_MAX ELSE duty]

startRamp(s, fromDuty, toDuty, durationMs, t) ==
  LET active == durationMs > 0 /\ fromDuty # toDuty
      r == [s EXCEPT !.rampFrom = fromDuty, !.rampTo = toDuty,
                     !.rampDur = durationMs, !.rampStart = t,
                     !.rampActive = active]
  IN  IF active THEN r ELSE pumpSetDuty(r, toDuty)

\* updateRamp finishing a ramp without writing its target
updateRampStopsShort(s, t) ==
  IF ~s.rampActive THEN s
  ELSE LET el == SubU32(t, s.rampStart) IN
       IF GeU32(el, s.rampDur)
         THEN [s EXCEPT !.rampActive = FALSE]
         ELSE pumpSetDuty(s, s.rampFrom
                              + TruncDiv((s.rampTo - s.rampFrom) * el, s.rampDur))

updateRamp(s, t) ==
  IF ~s.rampActive THEN s
  ELSE LET el == SubU32(t, s.rampStart) IN
       IF GeU32(el, s.rampDur)
         THEN [pumpSetDuty(s, s.rampTo) EXCEPT !.rampActive = FALSE]
         ELSE pumpSetDuty(s, s.rampFrom
                              + TruncDiv((s.rampTo - s.rampFrom) * el, s.rampDur))

\* ------------------------------------------------------------ valve, states
valveOn(s)  == [s EXCEPT !.valveOpen = TRUE]
valveOff(s) == [s EXCEPT !.valveOpen = FALSE]

\* enterState with REST forgetting valveOff()
enterStateRestLeavesValve(s, st, t) ==
  LET e == [s EXCEPT !.puffState = st, !.stateStart = t,
                     !.visits = Append(@, st),
                     !.puffFrames = IF st = "PUFF"
                                      THEN Append(@, s.sequenceIndex) ELSE @,
                     !.recoverSince = IF st = "RECOVER" THEN << t >>
                                        ELSE IF st = "PRECHARGE" \/ ~s.sequenceActive
                                          THEN << >> ELSE @]
  IN  CASE st = "REST"      -> startRamp(e, duty_run, duty_idle, ramp_time_ms, t)
        [] st = "PRECHARGE" -> startRamp(e, duty_idle, duty_run, ramp_time_ms, t)
        [] st = "PUFF"      -> valveOn(e)
        [] st = "RECOVER"   -> valveOff(startRamp(e, duty_run, duty_idle, ramp_time_ms, t))

enterState(s, st, t) ==
  LET e == [s EXCEPT !.puffState = st, !.stateStart = t,
                     !.visits = Append(@, st),
                     !.puffFrames = IF st = "PUFF"
                                      THEN Append(@, s.sequenceIndex) ELSE @,
                     !.recoverSince = IF st = "RECOVER" THEN << t >>
                                        ELSE IF st = "PRECHARGE" \/ ~s.sequenceActive
                                          THEN << >> ELSE @]
  IN  CASE st = "REST"      -> valveOff(startRamp(e, duty_run, duty_idle, ramp_time_ms, t))
        [] st = "PRECHARGE" -> startRamp(e, duty_idle, duty_run, ramp_time_ms, t)
        [] st = "PUFF"      -> valveOn(e)
        [] st = "RECOVER"   -> valveOff(startRamp(e, duty_run, duty_idle, ramp_time_ms, t))

\* ------------------------------------------------------------ sequence
\* cancelSequence without its early return
cancelSequenceNoGuard(s, t) ==
  enterState([s EXCEPT !.sequenceActive = FALSE, !.sequenceIndex = 0,
                       !.sequenceStartMs = 0,
                       !.serialOut = Append(@, "SEQ CANCEL")],
             "REST", t)

\* cancelSequence printing SEQ CANCEL and entering Rest with the sequence left
\* marked active
cancelSequenceStaysActive(s, t) ==
  IF ~s.sequenceActive THEN s
  ELSE enterState([s EXCEPT !.serialOut = Append(@, "SEQ CANCEL")], "REST", t)

\* cancelSequence leaving the frame index where the sequence had got to
cancelSequenceKeepsIndex(s, t) ==
  IF ~s.sequenceActive THEN s
  ELSE enterState([s EXCEPT !.sequenceActive = FALSE,
                            !.sequenceStartMs = 0,
                            !.serialOut = Append(@, "SEQ CANCEL")],
                  "REST", t)

cancelSequence(s, t) ==
  IF ~s.sequenceActive THEN s
  ELSE enterState([s EXCEPT !.sequenceActive = FALSE, !.sequenceIndex = 0,
                            !.sequenceStartMs = 0,
                            !.serialOut = Append(@, "SEQ CANCEL")],
                  "REST", t)

\* one SequenceEvent, for frame i with the slot drawn for it
\* a schedule whose frames are laid one slot apart instead of one frame apart
FrameEventSlotApart(startMs, i, slot) ==
  LET frameBase == AddU32(startMs, i * SLOT_DURATION_MS)
      puffAt    == AddU32(frameBase, slot * SLOT_DURATION_MS)
      recoverAt == AddU32(puffAt, puff_ms)
  IN  [ slot |-> slot, prechargeAt |-> frameBase, puffAt |-> puffAt,
        recoverAt |-> recoverAt, guardDoneAt |-> AddU32(recoverAt, guard_ms) ]

\* a schedule whose precharge is not held back to the start of its frame
FrameEventNoClamp(startMs, i, slot) ==
  LET frameBase == AddU32(startMs, i * FRAME_DURATION_MS)
      puffAt    == AddU32(frameBase, slot * SLOT_DURATION_MS)
      pre0      == IF GeU32(puffAt, precharge_ms)
                     THEN SubU32(puffAt, precharge_ms) ELSE puffAt
      recoverAt == AddU32(puffAt, puff_ms)
  IN  [ slot |-> slot, prechargeAt |-> pre0, puffAt |-> puffAt,
        recoverAt |-> recoverAt, guardDoneAt |-> AddU32(recoverAt, guard_ms) ]

FrameEvent(startMs, i, slot) ==
  LET frameBase == AddU32(startMs, i * FRAME_DURATION_MS)
      puffAt    == AddU32(frameBase, slot * SLOT_DURATION_MS)
      pre0      == IF GeU32(puffAt, precharge_ms)
                     THEN SubU32(puffAt, precharge_ms) ELSE puffAt
      preAt     == IF LtU32(pre0, frameBase) THEN frameBase ELSE pre0
      recoverAt == AddU32(puffAt, puff_ms)
  IN  [ slot |-> slot, prechargeAt |-> preAt, puffAt |-> puffAt,
        recoverAt |-> recoverAt, guardDoneAt |-> AddU32(recoverAt, guard_ms) ]

\* startProgrammedSequence reporting busy and then rescheduling all the same
startProgrammedSequenceBusyFallsThrough(s, t, slots) ==
  LET startMs == AddU32(t, SEQUENCE_LEAD_MS)
      r == IF s.sequenceActive THEN [s EXCEPT !.serialOut = Append(@, "SEQ BUSY")] ELSE s
      a == [r EXCEPT !.sequenceStartMs = startMs,
                     !.sequenceEvents =
                        [i \in 0 .. SEQ_FRAMES - 1 |-> FrameEvent(startMs, i, slots[i])],
                     !.sequenceIndex = 0, !.sequenceActive = TRUE,
                     !.visits = << >>, !.puffFrames = << >>]
      b == enterState(a, "REST", t)
  IN  IF s.sequenceActive THEN b ELSE [b EXCEPT !.serialOut = Append(@, "SEQ START")]

\* startProgrammedSequence answering SEQ START to a START it refuses
startProgrammedSequenceAnnouncesBusy(s, t, slots) ==
  IF s.sequenceActive THEN [s EXCEPT !.serialOut = Append(@, "SEQ START")]
  ELSE LET startMs == AddU32(t, SEQUENCE_LEAD_MS)
           a == [s EXCEPT !.sequenceStartMs = startMs,
                          !.sequenceEvents =
                             [i \in 0 .. SEQ_FRAMES - 1 |-> FrameEvent(startMs, i, slots[i])],
                          !.sequenceIndex = 0, !.sequenceActive = TRUE,
                          !.visits = << >>, !.puffFrames = << >>]
           b == enterState(a, "REST", t)
       IN  [b EXCEPT !.serialOut = Append(@, "SEQ START")]

startProgrammedSequence(s, t, slots) ==
  IF s.sequenceActive THEN [s EXCEPT !.serialOut = Append(@, "SEQ BUSY")]
  ELSE LET startMs == AddU32(t, SEQUENCE_LEAD_MS)
           a == [s EXCEPT !.sequenceStartMs = startMs,
                          !.sequenceEvents =
                             [i \in 0 .. SEQ_FRAMES - 1 |-> FrameEvent(startMs, i, slots[i])],
                          !.sequenceIndex = 0, !.sequenceActive = TRUE,
                          !.visits = << >>, !.puffFrames = << >>]
           b == enterState(a, "REST", t)
       IN  [b EXCEPT !.serialOut = Append(@, "SEQ START")]

\* ------------------------------------------------------------ commands
START == << "S", "T", "A", "R", "T" >>
STOP  == << "S", "T", "O", "P" >>

\* bytes are one-character strings, the zero byte is "NUL"
IsEol(c) == c = "\n" \/ c = "\r"

\* the C string held in a char array: its bytes up to the first zero byte
CString(bytes) ==
  LET zeros == {k \in 1 .. Len(bytes) : bytes[k] = "NUL"}
  IN  IF zeros = {} THEN bytes
      ELSE SubSeq(bytes, 1, (CHOOSE k \in zeros : \A j \in zeros : k <= j) - 1)

\* strcmp(cmd, "START") == 0, strcmp(cmd, "STOP") == 0
processCommand(s, cmd, t, slots) ==
  IF CString(cmd) = START THEN startProgrammedSequence(s, t, slots)
  ELSE IF CString(cmd) = STOP THEN cancelSequence(s, t)
  ELSE s

\* The while loop of handleSerialInput, taken a line at a time: the bytes up to
\* the next line end are stored while they fit (len < sizeof(buffer) - 1), and at
\* the line end the buffer, unless empty, is run as a command and emptied.
RECURSIVE handleSerialInput(_, _, _, _)
handleSerialInput(s, chars, t, slots) ==
  IF chars = << >> THEN s
  ELSE LET eols == {k \in 1 .. Len(chars) : IsEol(chars[k])}
           n    == IF eols = {} THEN Len(chars) + 1
                   ELSE CHOOSE k \in eols : \A j \in eols : k <= j
           read == s.buffer \o SubSeq(chars, 1, n - 1)
           kept == SubSeq(read, 1, IF Len(read) < BUFFER_SIZE - 1 THEN Len(read)
                                   ELSE BUFFER_SIZE - 1)
           a    == [s EXCEPT !.buffer = kept]
       IN  IF n > Len(chars) THEN a
           ELSE handleSerialInput(
                  IF Len(kept) > 0
                    THEN [processCommand(a, kept, t, slots) EXCEPT !.buffer = << >>]
                    ELSE a,
                  SubSeq(chars, n + 1, Len(chars)), t, slots)

\* ------------------------------------------------------------ puff machine
\* the switch (puffState) of loop(), stepping the frame index by two
puffMachineSkipsFrame(s, t) ==
  LET hasCurrent == s.sequenceActive /\ s.sequenceIndex < SEQ_FRAMES
      cur == s.sequenceEvents[s.sequenceIndex]
  IN  CASE s.puffState = "REST" ->
             IF hasCurrent /\ Reached(t, cur.prechargeAt)
               THEN enterState(s, "PRECHARGE", t) ELSE s
        [] s.puffState = "PRECHARGE" ->
             IF ~hasCurrent THEN enterState(s, "REST", t)
             ELSE IF Reached(t, cur.puffAt) THEN enterState(s, "PUFF", t) ELSE s
        [] s.puffState = "PUFF" ->
             IF ~hasCurrent THEN enterState(s, "REST", t)
             ELSE IF Reached(t, cur.recoverAt) THEN enterState(s, "RECOVER", t) ELSE s
        [] s.puffState = "RECOVER" ->
             IF ~hasCurrent THEN enterState(s, "REST", t)
             ELSE IF Reached(t, cur.guardDoneAt)
               THEN IF s.sequenceIndex + 2 >= SEQ_FRAMES
                      THEN enterState([s EXCEPT !.sequenceActive = FALSE,
                                                !.sequenceStartMs = 0,
                                                !.sequenceIndex = 0,
                                                !.serialOut = Append(@, "SEQ END")],
                                      "REST", t)
                      ELSE enterState([s EXCEPT !.sequenceIndex = @ + 2], "REST", t)
             ELSE s

\* the state machine staying where it is when it has no current frame
puffMachineStaysWithoutFrame(s, t) ==
  LET hasCurrent == s.sequenceActive /\ s.sequenceIndex < SEQ_FRAMES
      cur == s.sequenceEvents[s.sequenceIndex]
  IN  CASE s.puffState = "REST" ->
             IF hasCurrent /\ Reached(t, cur.prechargeAt)
               THEN enterState(s, "PRECHARGE", t) ELSE s
        [] s.puffState = "PRECHARGE" ->
             IF ~hasCurrent THEN s
             ELSE IF Reached(t, cur.puffAt) THEN enterState(s, "PUFF", t) ELSE s
        [] s.puffState = "PUFF" ->
             IF ~hasCurrent THEN s
             ELSE IF Reached(t, cur.recoverAt) THEN enterState(s, "RECOVER", t) ELSE s
        [] s.puffState = "RECOVER" ->
             IF ~hasCurrent THEN s
             ELSE IF Reached(t, cur.guardDoneAt)
               THEN IF s.sequenceIndex + 1 >= SEQ_FRAMES
                      THEN enterState([s EXCEPT !.sequenceActive = FALSE,
                                                !.sequenceStartMs = 0,
                                                !.sequenceIndex = 0,
                                                !.serialOut = Append(@, "SEQ END")],
                                      "REST", t)
                      ELSE enterState([s EXCEPT !.sequenceIndex = @ + 1], "REST", t)
             ELSE s

\* the switch (puffState) of loop()
\* the state machine ending the sequence without printing SEQ END
puffMachineEndsSilently(s, t) ==
  LET hasCurrent == s.sequenceActive /\ s.sequenceIndex < SEQ_FRAMES
      cur == s.sequenceEvents[s.sequenceIndex]
  IN  CASE s.puffState = "REST" ->
             IF hasCurrent /\ Reached(t, cur.prechargeAt)
               THEN enterState(s, "PRECHARGE", t) ELSE s
        [] s.puffState = "PRECHARGE" ->
             IF ~hasCurrent THEN enterState(s, "REST", t)
             ELSE IF Reached(t, cur.puffAt) THEN enterState(s, "PUFF", t) ELSE s
        [] s.puffState = "PUFF" ->
             IF ~hasCurrent THEN enterState(s, "REST", t)
             ELSE IF Reached(t, cur.recoverAt) THEN enterState(s, "RECOVER", t) ELSE s
        [] s.puffState = "RECOVER" ->
             IF ~hasCurrent THEN enterState(s, "REST", t)
             ELSE IF Reached(t, cur.guardDoneAt)
               THEN IF s.sequenceIndex + 1 >= SEQ_FRAMES
                      THEN enterState([s EXCEPT !.sequenceActive = FALSE,
                                                !.sequenceStartMs = 0,
                                                !.sequenceIndex = 0],
                                      "REST", t)
                      ELSE enterState([s EXCEPT !.sequenceIndex = @ + 1], "REST", t)
             ELSE s

\* the state machine leaving Rest for a frame of a sequence that is not active
puffMachineIgnoresActive(s, t) ==
  LET hasCurrent == s.sequenceActive /\ s.sequenceIndex < SEQ_FRAMES
      cur == s.sequenceEvents[s.sequenceIndex]
  IN  CASE s.puffState = "REST" ->
             IF s.sequenceIndex < SEQ_FRAMES /\ Reached(t, cur.prechargeAt)
               THEN enterState(s, "PRECHARGE", t) ELSE s
        [] s.puffState = "PRECHARGE" ->
             IF ~hasCurrent THEN enterState(s, "REST", t)
             ELSE IF Reached(t, cur.puffAt) THEN enterState(s, "PUFF", t) ELSE s
        [] s.puffState = "PUFF" ->
             IF ~hasCurrent THEN enterState(s, "REST", t)
             ELSE IF Reached(t, cur.recoverAt) THEN enterState(s, "RECOVER", t) ELSE s
        [] s.puffState = "RECOVER" ->
             IF ~hasCurrent THEN enterState(s, "REST", t)
             ELSE IF Reached(t, cur.guardDoneAt)
               THEN IF s.sequenceIndex + 1 >= SEQ_FRAMES
                      THEN enterState([s EXCEPT !.sequenceActive = FALSE,
                                                !.sequenceStartMs = 0,
                                                !.sequenceIndex = 0,
                                                !.serialOut = Append(@, "SEQ END")],
                                      "REST", t)
                      ELSE enterState([s EXCEPT !.sequenceIndex = @ + 1], "REST", t)
             ELSE s

puffMachine(s, t) ==
  LET hasCurrent == s.sequenceActive /\ s.sequenceIndex < SEQ_FRAMES
      cur == s.sequenceEvents[s.sequenceIndex]
  IN  CASE s.puffState = "REST" ->
             IF hasCurrent /\ Reached(t, cur.prechargeAt)
               THEN enterState(s, "PRECHARGE", t) ELSE s
        [] s.puffState = "PRECHARGE" ->
             IF ~hasCurrent THEN enterState(s, "REST", t)
             ELSE IF Reached(t, cur.puffAt) THEN enterState(s, "PUFF", t) ELSE s
        [] s.puffState = "PUFF" ->
             IF ~hasCurrent THEN enterState(s, "REST", t)
             ELSE IF Reached(t, cur.recoverAt) THEN enterState(s, "RECOVER", t) ELSE s
        [] s.puffState = "RECOVER" ->
             IF ~hasCurrent THEN enterState(s, "REST", t)
             ELSE IF Reached(t, cur.guardDoneAt)
               THEN IF s.sequenceIndex + 1 >= SEQ_FRAMES
                      THEN enterState([s EXCEPT !.sequenceActive = FALSE,
                                                !.sequenceStartMs = 0,
                                                !.sequenceIndex = 0,
                                                !.serialOut = Append(@, "SEQ END")],
                                      "REST", t)
                      ELSE enterState([s EXCEPT !.sequenceIndex = @ + 1], "REST", t)
             ELSE s

\* ------------------------------------------------------------ detection tunables
SAMPLE_INTERVAL_MS == 5
PRESENCE_ENTER == 10
PRESENCE_EXIT  == 5
ENTER_HOLD_MS  == 40
EXIT_HOLD_MS   == 300
MIN_CROSS_MS   == 20
REFRACTORY_MS  == 250
WARMUP_MS      == 600
MIN_SAMPLES    == 120

\* float values are held as integers: value * FP (mean, second moment, variance,
\* confidence, z-scores), value * SFP (sigma; SFP * SFP = FP) and value * FP * SFP
\* (the slope EWMA, which moves in far smaller steps than the mean).
FP  == 10000
SFP == 100
Z_ENTER         == 2 * FP
Z_EXIT          == 1 * FP
MIN_SIGMA_FLOOR == (8 * SFP) \div 10
CONF_REQUIRED   == (70 * FP) \div 100
SLOPE_MAX       == (20 * FP * SFP) \div 100
\* ALPHA = DT_SEC / TAU_SEC = 1/200, ALPHA_SLOPE = DT_SEC / SLOPE_TAU_SEC = 1/60
INV_ALPHA       == (1000 * 1) \div SAMPLE_INTERVAL_MS
INV_ALPHA_SLOPE == (1000 * 3) \div (10 * SAMPLE_INTERVAL_MS)

\* a * b for two non-negative fixed-point values, without leaving 32 bits
MulFP(a, b) ==
  LET qa == a \div FP  ra == a % FP
      qb == b \div FP  rb == b % FP
  IN  qa * b + ra * qb + (ra * rb) \div FP

RECURSIVE SqrtIter(_, _, _)
SqrtIter(v, lo, hi) ==
  IF lo >= hi THEN lo
  ELSE LET mid == (lo + hi + 1) \div 2
       IN  IF mid * mid <= v THEN SqrtIter(v, mid, hi) ELSE SqrtIter(v, lo, mid - 1)

\* sqrtf of a value held * FP, as a value held * SFP
sqrtf(v) == SqrtIter(v, 0, 46340)

clamp01(x) == IF x < 0 THEN 0 ELSE IF x > FP THEN FP ELSE x

Abs(x) == IF x < 0 THEN -x ELSE x

\* resetStatsAndConfidence leaving the confidence and the sample count alone
resetStatsKeepsConfidence(d, t) ==
  [d EXCEPT !.statsInit = FALSE, !.mean_ps = 0, !.m2_ps = 0, !.prev_mean_ps = 0,
            !.slopeAbsEwma = 0,
            !.devPolarity = 0, !.beyondZ = FALSE, !.crossStartMs = 0,
            !.refractoryUntilMs = 0, !.presenceEnterMs = t]

\* resetStatsAndConfidence zeroing the blink counter too
resetStatsClearsCount(d, t) ==
  [d EXCEPT !.statsInit = FALSE, !.mean_ps = 0, !.m2_ps = 0, !.prev_mean_ps = 0,
            !.slopeAbsEwma = 0, !.conf = 0, !.sampleCount = 0,
            !.devPolarity = 0, !.beyondZ = FALSE, !.crossStartMs = 0,
            !.refractoryUntilMs = 0, !.presenceEnterMs = t, !.blinkCount = 0]

resetStatsAndConfidence(d, t) ==
  [d EXCEPT !.statsInit = FALSE, !.mean_ps = 0, !.m2_ps = 0, !.prev_mean_ps = 0,
            !.slopeAbsEwma = 0, !.conf = 0, !.sampleCount = 0,
            !.devPolarity = 0, !.beyondZ = FALSE, !.crossStartMs = 0,
            !.refractoryUntilMs = 0, !.presenceEnterMs = t]

updateStats(d, x) ==
  IF ~d.statsInit
    THEN [d EXCEPT !.statsInit = TRUE, !.mean_ps = x * FP, !.m2_ps = x * x * FP,
                   !.prev_mean_ps = x * FP]
  ELSE LET mean == d.mean_ps + TruncDiv(x * FP - d.mean_ps, INV_ALPHA)
           m2   == d.m2_ps + TruncDiv(x * x * FP - d.m2_ps, INV_ALPHA)
           step == Abs(mean - d.prev_mean_ps) * SFP
       IN  [d EXCEPT !.mean_ps = mean, !.m2_ps = m2,
                     !.slopeAbsEwma = @ + TruncDiv(step - @, INV_ALPHA_SLOPE),
                     !.prev_mean_ps = mean]

\* currentSigma returning the square root as it is, whatever `floored` says
currentSigmaNoFloor(d, floored) ==
  LET var0  == d.m2_ps - MulFP(d.mean_ps, d.mean_ps)
      var   == IF var0 < 0 THEN 0 ELSE var0
  IN  sqrtf(var)

currentSigma(d, floored) ==
  LET var0  == d.m2_ps - MulFP(d.mean_ps, d.mean_ps)
      var   == IF var0 < 0 THEN 0 ELSE var0
      sigma == sqrtf(var)
  IN  IF floored /\ sigma < MIN_SIGMA_FLOOR THEN MIN_SIGMA_FLOOR ELSE sigma

updateConfidence(d, t) ==
  LET el        == SubU32(t, d.presenceEnterMs)
      t_conf    == IF el < 0 \/ el >= WARMUP_MS THEN FP ELSE (el * FP) \div WARMUP_MS
      s_conf    == IF d.sampleCount >= MIN_SAMPLES THEN FP
                   ELSE (d.sampleCount * FP) \div MIN_SAMPLES
      stab_conf == FP - clamp01(d.slopeAbsEwma \div (SLOPE_MAX \div FP))
      c1        == IF s_conf < t_conf THEN s_conf ELSE t_conf
  IN  [d EXCEPT !.conf = IF stab_conf < c1 THEN stab_conf ELSE c1]

\* handlePresenceFSM with the idle branch never clearing the hold timer
handlePresenceFSMIdleHoldKept(d, t, prox) ==
  IF d.presence = "IDLE"
    THEN IF prox >= PRESENCE_ENTER
           THEN LET h == IF d.holdTimerMs = 0 THEN t ELSE d.holdTimerMs IN
                IF GeU32(SubU32(t, h), ENTER_HOLD_MS)
                  THEN resetStatsAndConfidence(
                         [d EXCEPT !.presence = "PRESENCE", !.holdTimerMs = 0], t)
                  ELSE [d EXCEPT !.holdTimerMs = h]
           ELSE d
    ELSE IF prox <= PRESENCE_EXIT
           THEN LET h == IF d.holdTimerMs = 0 THEN t ELSE d.holdTimerMs IN
                IF GeU32(SubU32(t, h), EXIT_HOLD_MS)
                  THEN resetStatsAndConfidence(
                         [d EXCEPT !.presence = "IDLE", !.holdTimerMs = 0], t)
                  ELSE [d EXCEPT !.holdTimerMs = h]
           ELSE [d EXCEPT !.holdTimerMs = 0]

\* handlePresenceFSM with the hold timer left running across Idle -> Present
handlePresenceFSMCarriesHold(d, t, prox) ==
  IF d.presence = "IDLE"
    THEN IF prox >= PRESENCE_ENTER
           THEN LET h == IF d.holdTimerMs = 0 THEN t ELSE d.holdTimerMs IN
                IF GeU32(SubU32(t, h), ENTER_HOLD_MS)
                  THEN resetStatsAndConfidence(
                         [d EXCEPT !.presence = "PRESENCE", !.holdTimerMs = h], t)
                  ELSE [d EXCEPT !.holdTimerMs = h]
           ELSE [d EXCEPT !.holdTimerMs = 0]
    ELSE IF prox <= PRESENCE_EXIT
           THEN LET h == IF d.holdTimerMs = 0 THEN t ELSE d.holdTimerMs IN
                IF GeU32(SubU32(t, h), EXIT_HOLD_MS)
                  THEN resetStatsAndConfidence(
                         [d EXCEPT !.presence = "IDLE", !.holdTimerMs = 0], t)
                  ELSE [d EXCEPT !.holdTimerMs = h]
           ELSE [d EXCEPT !.holdTimerMs = 0]

\* handlePresenceFSM entering Present only once the hold is exceeded (> for >=)
handlePresenceFSMStrictHold(d, t, prox) ==
  IF d.presence = "IDLE"
    THEN IF prox >= PRESENCE_ENTER
           THEN LET h == IF d.holdTimerMs = 0 THEN t ELSE d.holdTimerMs IN
                IF SubU32(t, h) # ENTER_HOLD_MS /\ GeU32(SubU32(t, h), ENTER_HOLD_MS)
                  THEN resetStatsAndConfidence(
                         [d EXCEPT !.presence = "PRESENCE", !.holdTimerMs = 0], t)
                  ELSE [d EXCEPT !.holdTimerMs = h]
           ELSE [d EXCEPT !.holdTimerMs = 0]
    ELSE IF prox <= PRESENCE_EXIT
           THEN LET h == IF d.holdTimerMs = 0 THEN t ELSE d.holdTimerMs IN
                IF GeU32(SubU32(t, h), EXIT_HOLD_MS)
                  THEN resetStatsAndConfidence(
                         [d EXCEPT !.presence = "IDLE", !.holdTimerMs = 0], t)
                  ELSE [d EXCEPT !.holdTimerMs = h]
           ELSE [d EXCEPT !.holdTimerMs = 0]

handlePresenceFSM(d, t, prox) ==
  IF d.presence = "IDLE"
    THEN IF prox >= PRESENCE_ENTER
           THEN LET h == IF d.holdTimerMs = 0 THEN t ELSE d.holdTimerMs IN
                IF GeU32(SubU32(t, h), ENTER_HOLD_MS)
                  THEN resetStatsAndConfidence(
                         [d EXCEPT !.presence = "PRESENCE", !.holdTimerMs = 0], t)
                  ELSE [d EXCEPT !.holdTimerMs = h]
           ELSE [d EXCEPT !.holdTimerMs = 0]
    ELSE IF prox <= PRESENCE_EXIT
           THEN LET h == IF d.holdTimerMs = 0 THEN t ELSE d.holdTimerMs IN
                IF GeU32(SubU32(t, h), EXIT_HOLD_MS)
                  THEN resetStatsAndConfidence(
                         [d EXCEPT !.presence = "IDLE", !.holdTimerMs = 0], t)
                  ELSE [d EXCEPT !.holdTimerMs = h]
           ELSE [d EXCEPT !.holdTimerMs = 0]

\* the rise z-score of sample prox against the updated baseline
zRiseOf(d, prox) ==
  LET sigma == currentSigma(d, TRUE)
      dev   == prox * FP - d.mean_ps
  IN  IF sigma > 0 THEN TruncDiv(dev * SFP, sigma) ELSE 0

\* detectCrossing with a blink opening no refractory window
detectCrossingNoRefractory(d, t, prox) ==
  LET zRise     == zRiseOf(d, prox)
      zDrop     == -zRise
      enterRise == zRise >= Z_ENTER
      enterDrop == zDrop >= Z_ENTER
      exitRise  == zRise <= Z_EXIT
      exitDrop  == zDrop <= Z_EXIT
      curPol    == IF enterRise THEN 1 ELSE -1
  IN  IF SubU32(t, d.refractoryUntilMs) < 0
        THEN [d EXCEPT !.beyondZ = FALSE, !.devPolarity = 0, !.crossStartMs = 0,
                       !.ev = "refractory"]
      ELSE IF enterRise \/ enterDrop
        THEN IF ~d.beyondZ
               THEN [d EXCEPT !.beyondZ = TRUE, !.devPolarity = curPol,
                              !.crossStartMs = t, !.ev = "start"]
             ELSE LET f == IF curPol # d.devPolarity
                             THEN [d EXCEPT !.devPolarity = curPol, !.crossStartMs = t]
                             ELSE d
                  IN  IF GeU32(SubU32(t, f.crossStartMs), MIN_CROSS_MS)
                        THEN [f EXCEPT !.blinkCount = @ + 1,
                                       !.beyondZ = FALSE,
                                       !.blinkPolarity = f.devPolarity,
                                       !.devPolarity = 0, !.crossStartMs = 0,
                                       !.ev = "blink"]
                        ELSE [f EXCEPT !.ev = "dwell"]
      ELSE IF d.beyondZ
        THEN IF (IF d.devPolarity = 1 THEN exitRise ELSE exitDrop)
               THEN [d EXCEPT !.beyondZ = FALSE, !.devPolarity = 0,
                              !.crossStartMs = 0, !.ev = "release"]
               ELSE [d EXCEPT !.ev = "band"]
      ELSE [d EXCEPT !.ev = "quiet"]

\* detectCrossing confirming only once the dwell is exceeded (> for >=)
detectCrossingStrictDwell(d, t, prox) ==
  LET zRise     == zRiseOf(d, prox)
      zDrop     == -zRise
      enterRise == zRise >= Z_ENTER
      enterDrop == zDrop >= Z_ENTER
      exitRise  == zRise <= Z_EXIT
      exitDrop  == zDrop <= Z_EXIT
      curPol    == IF enterRise THEN 1 ELSE -1
  IN  IF SubU32(t, d.refractoryUntilMs) < 0
        THEN [d EXCEPT !.beyondZ = FALSE, !.devPolarity = 0, !.crossStartMs = 0,
                       !.ev = "refractory"]
      ELSE IF enterRise \/ enterDrop
        THEN IF ~d.beyondZ
               THEN [d EXCEPT !.beyondZ = TRUE, !.devPolarity = curPol,
                              !.crossStartMs = t, !.ev = "start"]
             ELSE LET f == IF curPol # d.devPolarity
                             THEN [d EXCEPT !.devPolarity = curPol, !.crossStartMs = t]
                             ELSE d
                  IN  IF SubU32(t, f.crossStartMs) # MIN_CROSS_MS
                       /\ GeU32(SubU32(t, f.crossStartMs), MIN_CROSS_MS)
                        THEN [f EXCEPT !.blinkCount = @ + 1,
                                       !.refractoryUntilMs = AddU32(t, REFRACTORY_MS),
                                       !.beyondZ = FALSE,
                                       !.blinkPolarity = f.devPolarity,
                                       !.devPolarity = 0, !.crossStartMs = 0,
                                       !.ev = "blink"]
                        ELSE [f EXCEPT !.ev = "dwell"]
      ELSE IF d.beyondZ
        THEN IF (IF d.devPolarity = 1 THEN exitRise ELSE exitDrop)
               THEN [d EXCEPT !.beyondZ = FALSE, !.devPolarity = 0,
                              !.crossStartMs = 0, !.ev = "release"]
               ELSE [d EXCEPT !.ev = "band"]
      ELSE [d EXCEPT !.ev = "quiet"]

\* detectCrossing ending the refractory period 100 ms before its deadline
detectCrossingRefractoryEndsEarly(d, t, prox) ==
  LET zRise     == zRiseOf(d, prox)
      zDrop     == -zRise
      enterRise == zRise >= Z_ENTER
      enterDrop == zDrop >= Z_ENTER
      exitRise  == zRise <= Z_EXIT
      exitDrop  == zDrop <= Z_EXIT
      curPol    == IF enterRise THEN 1 ELSE -1
  IN  IF SubU32(t, d.refractoryUntilMs) < -MIN_CROSS_MS * 5
        THEN [d EXCEPT !.beyondZ = FALSE, !.devPolarity = 0, !.crossStartMs = 0,
                       !.ev = "refractory"]
      ELSE IF enterRise \/ enterDrop
        THEN IF ~d.beyondZ
               THEN [d EXCEPT !.beyondZ = TRUE, !.devPolarity = curPol,
                              !.crossStartMs = t, !.ev = "start"]
             ELSE LET f == IF curPol # d.devPolarity
                             THEN [d EXCEPT !.devPolarity = curPol, !.crossStartMs = t]
                             ELSE d
                  IN  IF GeU32(SubU32(t, f.crossStartMs), MIN_CROSS_MS)
                        THEN [f EXCEPT !.blinkCount = @ + 1,
                                       !.refractoryUntilMs = AddU32(t, REFRACTORY_MS),
                                       !.beyondZ = FALSE,
                                       !.blinkPolarity = f.devPolarity,
                                       !.devPolarity = 0, !.crossStartMs = 0,
                                       !.ev = "blink"]
                        ELSE [f EXCEPT !.ev = "dwell"]
      ELSE IF d.beyondZ
        THEN IF (IF d.devPolarity = 1 THEN exitRise ELSE exitDrop)
               THEN [d EXCEPT !.beyondZ = FALSE, !.devPolarity = 0,
                              !.crossStartMs = 0, !.ev = "release"]
               ELSE [d EXCEPT !.ev = "band"]
      ELSE [d EXCEPT !.ev = "quiet"]

\* detectCrossing taking the new polarity on a flip but not restarting the dwell
detectCrossingFlipKeepsStart(d, t, prox) ==
  LET zRise     == zRiseOf(d, prox)
      zDrop     == -zRise
      enterRise == zRise >= Z_ENTER
      enterDrop == zDrop >= Z_ENTER
      exitRise  == zRise <= Z_EXIT
      exitDrop  == zDrop <= Z_EXIT
      curPol    == IF enterRise THEN 1 ELSE -1
  IN  IF SubU32(t, d.refractoryUntilMs) < 0
        THEN [d EXCEPT !.beyondZ = FALSE, !.devPolarity = 0, !.crossStartMs = 0,
                       !.ev = "refractory"]
      ELSE IF enterRise \/ enterDrop
        THEN IF ~d.beyondZ
               THEN [d EXCEPT !.beyondZ = TRUE, !.devPolarity = curPol,
                              !.crossStartMs = t, !.ev = "start"]
             ELSE LET f == IF curPol # d.devPolarity
                             THEN [d EXCEPT !.devPolarity = curPol]
                             ELSE d
                  IN  IF GeU32(SubU32(t, f.crossStartMs), MIN_CROSS_MS)
                        THEN [f EXCEPT !.blinkCount = @ + 1,
                                       !.refractoryUntilMs = AddU32(t, REFRACTORY_MS),
                                       !.beyondZ = FALSE,
                                       !.blinkPolarity = f.devPolarity,
                                       !.devPolarity = 0, !.crossStartMs = 0,
                                       !.ev = "blink"]
                        ELSE [f EXCEPT !.ev = "dwell"]
      ELSE IF d.beyondZ
        THEN IF (IF d.devPolarity = 1 THEN exitRise ELSE exitDrop)
               THEN [d EXCEPT !.beyondZ = FALSE, !.devPolarity = 0,
                              !.crossStartMs = 0, !.ev = "release"]
               ELSE [d EXCEPT !.ev = "band"]
      ELSE [d EXCEPT !.ev = "quiet"]

\* the part of handleBlinkDetection after the statistics: what the sample does to
\* the crossing state.  ev names the branch taken.
detectCrossing(d, t, prox) ==
  LET zRise     == zRiseOf(d, prox)
      zDrop     == -zRise
      enterRise == zRise >= Z_ENTER
      enterDrop == zDrop >= Z_ENTER
      exitRise  == zRise <= Z_EXIT
      exitDrop  == zDrop <= Z_EXIT
      curPol    == IF enterRise THEN 1 ELSE -1
  IN  IF SubU32(t, d.refractoryUntilMs) < 0
        THEN [d EXCEPT !.beyondZ = FALSE, !.devPolarity = 0, !.crossStartMs = 0,
                       !.ev = "refractory"]
      ELSE IF enterRise \/ enterDrop
        THEN IF ~d.beyondZ
               THEN [d EXCEPT !.beyondZ = TRUE, !.devPolarity = curPol,
                              !.crossStartMs = t, !.ev = "start"]
             ELSE LET f == IF curPol # d.devPolarity
                             THEN [d EXCEPT !.devPolarity = curPol, !.crossStartMs = t]
                             ELSE d
                  IN  IF GeU32(SubU32(t, f.crossStartMs), MIN_CROSS_MS)
                        THEN [f EXCEPT !.blinkCount = @ + 1,
                                       !.refractoryUntilMs = AddU32(t, REFRACTORY_MS),
                                       !.beyondZ = FALSE,
                                       !.blinkPolarity = f.devPolarity,
                                       !.devPolarity = 0, !.crossStartMs = 0,
                                       !.ev = "blink"]
                        ELSE [f EXCEPT !.ev = "dwell"]
      ELSE IF d.beyondZ
        THEN IF (IF d.devPolarity = 1 THEN exitRise ELSE exitDrop)
               THEN [d EXCEPT !.beyondZ = FALSE, !.devPolarity = 0,
                              !.crossStartMs = 0, !.ev = "release"]
               ELSE [d EXCEPT !.ev = "band"]
      ELSE [d EXCEPT !.ev = "quiet"]

\* handleBlinkDetection without the return on low confidence
handleBlinkDetectionNoGate(d, t, prox) ==
  detectCrossing(
    updateConfidence([updateStats(d, prox) EXCEPT !.sampleCount = @ + 1], t), t, prox)

handleBlinkDetection(d, t, prox) ==
  LET u == updateConfidence([updateStats(d, prox) EXCEPT !.sampleCount = @ + 1], t)
  IN  IF u.conf < CONF_REQUIRED THEN [u EXCEPT !.ev = "gated"]
      ELSE detectCrossing(u, t, prox)

\* ------------------------------------------------------------ observer
\* What someone watching the sample stream (time since boot e, sample prox) sees,
\* kept apart from the firmware's own hold timer and crossing state:
\*   enterRun / exitRun  time of the first sample of the current unbroken run of
\*                       samples >= PRESENCE_ENTER taken while idle / of samples
\*                       <= PRESENCE_EXIT taken while present (-1: no run)
\*   crossPol, crossSince  the current crossing of one polarity that every sample
\*                       since its start was evaluated on and did not release
\*   dwellSeen, polSeen  that crossing's length and polarity as of the last sample
\*   transition          what the presence gate did on the last sample, and the
\*                       detector globals as handlePresenceFSM left them (fsm)
\*   blinkTimes          time since boot of each confirmed blink
\*   riseRun             how many samples in a row, up to the last one, had a rise
\*                       z-score >= Z_ENTER with confidence at the threshold or
\*                       above, the first of them with no refractory pending
\*   riseBlinks, riseDips  blinks confirmed on the samples of that run, and how
\*                       many of them were reported as dips
\*   at                  time since boot of the last sample
\*   restarts            how many runs towards the pending transition were broken
\*                       off by a sample on the wrong side of the threshold
Observe(o, d0, d1, d2, prox, e) ==
  LET evaluated == d1.presence = "PRESENCE" /\ d2.ev \notin {"gated", "refractory"}
      z     == zRiseOf(d2, prox)
      pol   == IF z >= Z_ENTER THEN 1 ELSE IF -z >= Z_ENTER THEN -1 ELSE 0
      held  == o.crossPol # 0 /\ (IF o.crossPol = 1 THEN z > Z_EXIT ELSE -z > Z_EXIT)
      cPol  == IF ~evaluated THEN 0
               ELSE IF pol # 0 THEN pol
               ELSE IF held THEN o.crossPol ELSE 0
      cSince == IF cPol = 0 THEN -1
                ELSE IF cPol = o.crossPol THEN o.crossSince ELSE e
      blink == d2.blinkCount # d0.blinkCount
      eRun  == IF d0.presence = "IDLE" /\ prox >= PRESENCE_ENTER
                 THEN (IF o.enterRun = -1 THEN e ELSE o.enterRun) ELSE -1
      xRun  == IF d0.presence = "PRESENCE" /\ prox <= PRESENCE_EXIT
                 THEN (IF o.exitRun = -1 THEN e ELSE o.exitRun) ELSE -1
      rising == /\ d1.presence = "PRESENCE" /\ d2.ev # "gated" /\ z >= Z_ENTER
                /\ o.riseRun > 0 \/ d2.ev # "refractory"
      dip   == blink /\ d2.blinkPolarity # 1
      broke == /\ o.transition = "none"
               /\ \/ o.enterRun # -1 /\ eRun = -1
                  \/ o.exitRun # -1 /\ xRun = -1
  IN  [ enterRun   |-> eRun,
        exitRun    |-> xRun,
        at         |-> e,
        restarts   |-> (IF o.transition = "none" THEN o.restarts ELSE 0)
                         + (IF broke THEN 1 ELSE 0),
        crossPol   |-> IF blink THEN 0 ELSE cPol,
        crossSince |-> IF blink THEN -1 ELSE cSince,
        polSeen    |-> cPol,
        dwellSeen  |-> IF cPol = 0 THEN 0 ELSE e - cSince,
        transition |-> IF d1.presence = d0.presence THEN "none"
                       ELSE IF d1.presence = "PRESENCE" THEN "enter" ELSE "exit",
        fsm        |-> d1,
        countBefore |-> d0.blinkCount,
        blinkTimes |-> IF blink THEN Append(o.blinkTimes, e) ELSE o.blinkTimes,
        riseRun    |-> IF rising THEN o.riseRun + 1 ELSE 0,
        riseBlinks |-> IF rising THEN o.riseBlinks + (IF blink THEN 1 ELSE 0) ELSE 0,
        riseDips   |-> IF rising THEN o.riseDips + (IF dip THEN 1 ELSE 0) ELSE 0 ]

\* ------------------------------------------------------------ sensor signal
\* The proximity signal is piecewise constant: it holds `level` for `runLeft` more
\* samples (-1: for good) and then moves to another level, or trembles around
\* `level` by +-TremorAmp on alternate samples.
TremorAmp == 13
Keep == [ kind |-> "keep" ]

SensorValue(g) ==
  IF g.tremor THEN (IF g.phase = 0 THEN g.level + TremorAmp ELSE g.level - TremorAmp)
  ELSE g.level

\* the signal after one sample was read, with the environment's choice c at the
\* end of a run
SensorAdvance(g, c) ==
  IF c = Keep
    THEN [g EXCEPT !.runLeft = IF @ > 0 THEN @ - 1 ELSE @,
                   !.phase = IF g.tremor THEN 1 - @ ELSE @]
    ELSE [ level |-> c.level, runLeft |-> c.run, tremor |-> c.tremor, phase |-> 0,
           changes |-> g.changes + 1 ]

\* the signal moves only at the end of a run; a run that ends with no move ends
\* the observation (runLeft = 0)
SensorChoiceOk(g, c) == g.runLeft = 1 \/ c = Keep

\* ------------------------------------------------------------ host controller
\* CONTROL_CFG with no environment overrides; confidences are in hundredths, as
\* the rig prints them with two decimals
confStart  == 95
confRearm  == 80
confExit   == 40
proxExit   == 5
leaveMs    == 1000
startDelay == 600

\* a missing key parses to undefined (<< >>), a present one to << value >>
Undefined == << >>

InitialControl ==
  [ autoArmed |-> TRUE, sequenceActive |-> FALSE, startPending |-> FALSE,
    stopPending |-> FALSE, leaveCandidateSince |-> << >>, lastStart |-> << >>,
    startTimer |-> << >> ]

clearStartTimer(c) == [c EXCEPT !.startTimer = << >>]

\* the outcome of a handler: the new controlState and the commands it wrote
Outcome(c, wrote) == [ control |-> c, wrote |-> wrote ]

\* requestStart arms the dispatch timer (<< due time, reason >>); START itself is
\* written when the timer fires
requestStart(c, port, now, reason) ==
  IF ~port THEN Outcome(c, << >>)
  ELSE IF c.sequenceActive \/ c.startPending THEN Outcome(c, << >>)
  ELSE Outcome([c EXCEPT !.startPending = TRUE,
                         !.autoArmed = FALSE,
                         !.lastStart = << reason, now >>,
                         !.startTimer = << now + (IF startDelay > 0 THEN startDelay ELSE 0),
                                           reason >>],
               << >>)

startDispatch(c) == Outcome([c EXCEPT !.startTimer = << >>], << "START" >>)

\* requestStop leaving the dispatch timer running
requestStopLeavesTimer(c, port, reason) ==
  IF ~port THEN Outcome(c, << >>)
  ELSE IF c.stopPending THEN Outcome(c, << >>)
  ELSE Outcome([c EXCEPT !.stopPending = TRUE], << "STOP" >>)

requestStop(c, port, reason) ==
  IF ~port THEN Outcome(c, << >>)
  ELSE IF c.stopPending THEN Outcome(c, << >>)
  ELSE Outcome([clearStartTimer(c) EXCEPT !.stopPending = TRUE], << "STOP" >>)

handleSequenceLog(c, kind) ==
  IF kind = "START"
    THEN [clearStartTimer(c) EXCEPT !.sequenceActive = TRUE, !.startPending = FALSE,
                                    !.stopPending = FALSE,
                                    !.leaveCandidateSince = << >>]
  ELSE IF kind = "END"
    THEN [clearStartTimer(c) EXCEPT !.sequenceActive = FALSE, !.stopPending = FALSE,
                                    !.leaveCandidateSince = << >>,
                                    !.lastStart = << >>]
  ELSE IF kind = "CANCEL"
    THEN [clearStartTimer(c) EXCEPT !.sequenceActive = FALSE, !.startPending = FALSE,
                                    !.stopPending = FALSE,
                                    !.leaveCandidateSince = << >>,
                                    !.lastStart = << >>]
  ELSE c

confidenceLow(status) ==
  status.confidence # Undefined /\ status.confidence[1] <= confExit
proxLow(status) == status.prox # Undefined /\ status.prox[1] <= proxExit

\* handleStatus arming auto-start again on any STATUS line outside a run
handleStatusRearmsAlways(c, port, now, status) ==
  IF c.sequenceActive \/ c.startPending
    THEN IF ~c.stopPending
           THEN IF confidenceLow(status) /\ proxLow(status)
                  THEN IF c.leaveCandidateSince = << >>
                         THEN Outcome([c EXCEPT !.leaveCandidateSince = << now >>], << >>)
                       ELSE IF now - c.leaveCandidateSince[1] >= leaveMs
                         THEN requestStop(c, port, "person-left")
                       ELSE Outcome(c, << >>)
                  ELSE Outcome([c EXCEPT !.leaveCandidateSince = << >>], << >>)
           ELSE Outcome([c EXCEPT !.leaveCandidateSince = << >>], << >>)
  ELSE LET c1 == [c EXCEPT !.leaveCandidateSince = << >>]
           c2 == [c1 EXCEPT !.autoArmed = TRUE]
       IN  IF c1.stopPending THEN Outcome(c1, << >>)
           ELSE IF c2.autoArmed /\ status.state = "PRESENCE"
                   /\ status.confidence # Undefined
                   /\ status.confidence[1] >= confStart
             THEN requestStart(c2, port, now, "auto-confidence")
           ELSE Outcome(c2, << >>)

\* handleStatus without its return while a stop is pending
handleStatusThroughStop(c, port, now, status) ==
  IF c.sequenceActive \/ c.startPending
    THEN IF ~c.stopPending
           THEN IF confidenceLow(status) /\ proxLow(status)
                  THEN IF c.leaveCandidateSince = << >>
                         THEN Outcome([c EXCEPT !.leaveCandidateSince = << now >>], << >>)
                       ELSE IF now - c.leaveCandidateSince[1] >= leaveMs
                         THEN requestStop(c, port, "person-left")
                       ELSE Outcome(c, << >>)
                  ELSE Outcome([c EXCEPT !.leaveCandidateSince = << >>], << >>)
           ELSE Outcome([c EXCEPT !.leaveCandidateSince = << >>], << >>)
  ELSE LET c1 == [c EXCEPT !.leaveCandidateSince = << >>]
           c2 == IF c1.autoArmed THEN c1
                 ELSE IF status.state = "IDLE" THEN [c1 EXCEPT !.autoArmed = TRUE]
                 ELSE IF status.confidence # Undefined
                         /\ status.confidence[1] <= confRearm
                   THEN [c1 EXCEPT !.autoArmed = TRUE]
                 ELSE c1
       IN  IF c2.autoArmed /\ status.state = "PRESENCE"
              /\ status.confidence # Undefined
              /\ status.confidence[1] >= confStart
             THEN requestStart(c2, port, now, "auto-confidence")
           ELSE Outcome(c2, << >>)

\* handleStatus sending STOP on the first leaving STATUS line past the candidate,
\* however soon it comes
handleStatusNoHold(c, port, now, status) ==
  IF c.sequenceActive \/ c.startPending
    THEN IF ~c.stopPending
           THEN IF confidenceLow(status) /\ proxLow(status)
                  THEN IF c.leaveCandidateSince = << >>
                         THEN Outcome([c EXCEPT !.leaveCandidateSince = << now >>], << >>)
                       ELSE requestStop(c, port, "person-left")
                  ELSE Outcome([c EXCEPT !.leaveCandidateSince = << >>], << >>)
           ELSE Outcome([c EXCEPT !.leaveCandidateSince = << >>], << >>)
  ELSE LET c1 == [c EXCEPT !.leaveCandidateSince = << >>]
           c2 == IF c1.autoArmed THEN c1
                 ELSE IF status.state = "IDLE" THEN [c1 EXCEPT !.autoArmed = TRUE]
                 ELSE IF status.confidence # Undefined
                         /\ status.confidence[1] <= confRearm
                   THEN [c1 EXCEPT !.autoArmed = TRUE]
                 ELSE c1
       IN  IF c1.stopPending THEN Outcome(c1, << >>)
           ELSE IF c2.autoArmed /\ status.state = "PRESENCE"
                   /\ status.confidence # Undefined
                   /\ status.confidence[1] >= confStart
             THEN requestStart(c2, port, now, "auto-confidence")
           ELSE Outcome(c2, << >>)

handleStatus(c, port, now, status) ==
  IF c.sequenceActive \/ c.startPending
    THEN IF ~c.stopPending
           THEN IF confidenceLow(status) /\ proxLow(status)
                  THEN IF c.leaveCandidateSince = << >>
                         THEN Outcome([c EXCEPT !.leaveCandidateSince = << now >>], << >>)
                       ELSE IF now - c.leaveCandidateSince[1] >= leaveMs
                         THEN requestStop(c, port, "person-left")
                       ELSE Outcome(c, << >>)
                  ELSE Outcome([c EXCEPT !.leaveCandidateSince = << >>], << >>)
           ELSE Outcome([c EXCEPT !.leaveCandidateSince = << >>], << >>)
  ELSE LET c1 == [c EXCEPT !.leaveCandidateSince = << >>]
           c2 == IF c1.autoArmed THEN c1
                 ELSE IF status.state = "IDLE" THEN [c1 EXCEPT !.autoArmed = TRUE]
                 ELSE IF status.confidence # Undefined
                         /\ status.confidence[1] <= confRearm
                   THEN [c1 EXCEPT !.autoArmed = TRUE]
                 ELSE c1
       IN  IF c1.stopPending THEN Outcome(c1, << >>)
           ELSE IF c2.autoArmed /\ status.state = "PRESENCE"
                   /\ status.confidence # Undefined
                   /\ status.confidence[1] >= confStart
             THEN requestStart(c2, port, now, "auto-confidence")
           ELSE Outcome(c2, << >>)

\* the 'message' handler of a dashboard connection
handleMessage(c, port, now, type) ==
  IF type = "start-sequence" THEN requestStart(c, port, now, "manual-ui")
  ELSE IF type = "stop-sequence" THEN requestStop(c, port, "manual-ui")
  ELSE Outcome(c, << >>)

\* the rig's answer to a command line: START starts a sequence unless one is
\* running (SEQ BUSY is no line the host parses), STOP cancels a running one
RECURSIVE rigCommands(_, _)
rigCommands(r, wrote) ==
  IF wrote = << >> THEN r
  ELSE LET cmd == Head(wrote)
           r1  == IF cmd = "START" /\ ~r.active
                    THEN [ active |-> TRUE, lines |-> Append(r.lines, "START") ]
                  ELSE IF cmd = "STOP" /\ r.active
                    THEN [ active |-> FALSE, lines |-> Append(r.lines, "CANCEL") ]
                  ELSE r
       IN  rigCommands(r1, Tail(wrote))

\* the rig reaches the end of its schedule
rigEnd(r) == [ active |-> FALSE, lines |-> Append(r.lines, "END") ]

\* parseStatusLine's result for the STATUS lines emitStatus prints: the state,
\* the confidence always, the proximity when a sample is valid
StatusOf(state, prox, confidence) ==
  [ state |-> state, prox |-> prox, confidence |-> << confidence >> ]

NoStatus == [ state |-> "", prox |-> Undefined, confidence |-> Undefined ]
Handled(kind, status, text) == [ kind |-> kind, status |-> status, text |-> text ]

HostEpoch == 50000

HostAtStart ==
  /\ controlState = InitialControl
  /\ serialPort = TRUE
  /\ hostNow = HostEpoch
  /\ hostObs = [ input |-> Handled("none", NoStatus, ""), lowSince |-> << >>,
                 messages |-> 0, wrote |-> << >> ]
  /\ rig = [ active |-> FALSE, lines |-> << >> ]

\* timers fire when they are due: no handler runs later than a pending timer's
\* due time before the timer has fired
TimerAllows(t) ==
  IF controlState.startTimer = << >> THEN TRUE ELSE t <= controlState.startTimer[1]

SetHost(o, now, input, low) ==
  /\ controlState' = o.control
  /\ hostNow' = now
  /\ rig' = rigCommands(rig, o.wrote)
  /\ hostObs' = [hostObs EXCEPT !.input = input, !.lowSince = low, !.wrote = o.wrote,
                                 !.messages = @ + (IF input.kind = "ws" THEN 1 ELSE 0)]

\* serial.on('data'): a STATUS line arrives dt ms after the last event
OnStatus(dt, status) ==
  LET now == hostNow + dt
      low == IF confidenceLow(status) /\ proxLow(status)
               THEN IF hostObs.lowSince = << >> THEN << now >> ELSE hostObs.lowSince
             ELSE << >>
  IN  /\ serialPort
      /\ TimerAllows(now)
      /\ SetHost(handleStatus(controlState, serialPort, now, status), now,
                 Handled("status", status, ""), low)
      /\ UNCHANGED serialPort

\* serial.on('data'): the oldest SEQ line on its way arrives
OnSequenceLine ==
  /\ serialPort
  /\ rig.lines # << >>
  /\ controlState' = handleSequenceLog(controlState, Head(rig.lines))
  /\ rig' = [rig EXCEPT !.lines = Tail(@)]
  /\ hostObs' = [hostObs EXCEPT !.input = Handled("seq", NoStatus, Head(rig.lines)),
                                 !.wrote = << >>]
  /\ UNCHANGED << serialPort, hostNow >>

\* the setTimeout callback of requestStart
OnStartTimer ==
  /\ controlState.startTimer # << >>
  /\ SetHost(startDispatch(controlState),
             IF hostNow >= controlState.startTimer[1] THEN hostNow
             ELSE controlState.startTimer[1],
             Handled("timer", NoStatus, controlState.startTimer[2]), hostObs.lowSince)
  /\ UNCHANGED serialPort

\* ws.on('message')
OnMessage(dt, type) ==
  /\ TimerAllows(hostNow + dt)
  /\ SetHost(handleMessage(controlState, serialPort, hostNow + dt, type), hostNow + dt,
             Handled("ws", NoStatus, type), hostObs.lowSince)
  /\ UNCHANGED serialPort

\* serial.on('close')
OnClose ==
  /\ serialPort
  /\ serialPort' = FALSE
  /\ controlState' = clearStartTimer(controlState)
  /\ hostObs' = [hostObs EXCEPT !.input = Handled("close", NoStatus, ""),
                                 !.wrote = << >>]
  /\ UNCHANGED << hostNow, rig >>

\* the rig's sequence runs out
RigEnds ==
  /\ rig.active
  /\ rig' = rigEnd(rig)
  /\ UNCHANGED << controlState, serialPort, hostNow, hostObs >>

\* ------------------------------------------------------------ pump exerciser
\* pump_test_MAPHD140.ino: its globals and its clock are the fields of pumpTest
PWM_RES == 10
PWM_MAX == 2 ^ PWM_RES - 1

constrain(x, lo, hi) == IF x < lo THEN lo ELSE IF x > hi THEN hi ELSE x

applyDuty(p, duty) == [p EXCEPT !.currentDuty = constrain(duty, 0, PWM_MAX)]

ensureDriverAwake(p) == IF ~p.driverAwake THEN [p EXCEPT !.driverAwake = TRUE] ELSE p

allowDriverSleep(p) ==
  IF p.driverAwake /\ p.currentDuty = 0 /\ ~p.rampActive /\ p.holdDuty = 0
    THEN [p EXCEPT !.driverAwake = FALSE]
    ELSE p

pumpTestStartRamp(p, fromDuty, toDuty, durationMs) ==
  IF durationMs = 0 \/ fromDuty = toDuty
    THEN applyDuty([p EXCEPT !.rampActive = FALSE], toDuty)
    ELSE LET a == ensureDriverAwake(p)
             r == [a EXCEPT !.rampFrom = constrain(fromDuty, 0, PWM_MAX),
                            !.rampTo = constrain(toDuty, 0, PWM_MAX),
                            !.rampDurMs = durationMs,
                            !.rampStart = a.millis,
                            !.rampActive = TRUE]
         IN  applyDuty(r, r.rampFrom)

serviceRamp(p) ==
  IF ~p.rampActive THEN p
  ELSE LET el == SubU32(p.millis, p.rampStart) IN
       IF GeU32(el, p.rampDurMs)
         THEN allowDriverSleep(applyDuty([p EXCEPT !.rampActive = FALSE], p.rampTo))
         ELSE applyDuty(p, p.rampFrom + TruncDiv((p.rampTo - p.rampFrom) * el, p.rampDurMs))

setHoldDuty(p, duty) ==
  LET h == [p EXCEPT !.holdDuty = constrain(duty, 0, PWM_MAX)]
  IN  IF h.holdDuty > 0
        THEN applyDuty([ensureDriverAwake(h) EXCEPT !.rampActive = FALSE], h.holdDuty)
        ELSE allowDriverSleep(applyDuty([h EXCEPT !.rampActive = FALSE], 0))

\* delay(durationMs) keeps the burst duty on while the clock runs on
doBurst(p, duty, durationMs) ==
  LET b == applyDuty([ensureDriverAwake(p) EXCEPT !.rampActive = FALSE],
                     constrain(duty, 0, PWM_MAX))
      d == [b EXCEPT !.millis = AddU32(@, durationMs)]
  IN  IF d.holdDuty > 0 THEN applyDuty(d, d.holdDuty)
      ELSE allowDriverSleep(applyDuty(d, 0))

\* a command line as sscanf reads it: the word and its integer arguments
Command(op, a, b, c) == [ op |-> op, a |-> a, b |-> b, c |-> c ]
NoCommand == Command("", 0, 0, 0)

handleCommand(p, cmd) ==
  IF cmd.op = "SET" THEN setHoldDuty(p, cmd.a)
  ELSE IF cmd.op = "BURST"
    THEN IF cmd.b > 0 THEN doBurst(p, cmd.a, cmd.b) ELSE p
  ELSE IF cmd.op = "RAMP"
    THEN IF cmd.c >= 0 THEN pumpTestStartRamp(p, cmd.a, cmd.b, cmd.c) ELSE p
  ELSE IF cmd.op = "STOP"
    THEN allowDriverSleep(applyDuty([p EXCEPT !.holdDuty = 0, !.rampActive = FALSE], 0))
  ELSE IF cmd.op = "WAKE" THEN ensureDriverAwake(p)
  ELSE p

\* setup(): the driver asleep, duty 0; t is millis() when loop() first runs
pumpTestSetup(t) ==
  applyDuty([ currentDuty |-> 0, holdDuty |-> 0, driverAwake |-> FALSE,
              rampActive |-> FALSE, rampFrom |-> 0, rampTo |-> 0, rampStart |-> 0,
              rampDurMs |-> 0, millis |-> t, command |-> NoCommand ], 0)

PumpTestBoot == 1500
InitialPumpTest == pumpTestSetup(PumpTestBoot)

\* one iteration of the exerciser's loop(), dt ms after the previous one, with
\* the command line `cmd` waiting on the serial port (NoCommand: nothing waits)
pumpTestLoop(p, dt, cmd) ==
  LET t == [p EXCEPT !.millis = AddU32(@, dt)]
      h == IF cmd = NoCommand THEN t ELSE handleCommand(t, cmd)
      r == allowDriverSleep(serviceRamp(h))
  IN  [r EXCEPT !.command = cmd]

PumpTestLoop(dt, cmd) ==
  /\ pumpTest' = pumpTestLoop(pumpTest, dt, cmd)
  /\ UNCHANGED << fwVars, hostVars >>

\* ------------------------------------------------------------ setup() and loop()
InitialDet(t) ==
  resetStatsAndConfidence(
    [ presence |-> "IDLE", holdTimerMs |-> 0, refractoryUntilMs |-> 0,
      presenceEnterMs |-> 0, statsInit |-> FALSE, mean_ps |-> 0, m2_ps |-> 0,
      prev_mean_ps |-> 0, slopeAbsEwma |-> 0, conf |-> 0, sampleCount |-> 0,
      devPolarity |-> 0, beyondZ |-> FALSE, crossStartMs |-> 0, blinkCount |-> 0,
      blinkPolarity |-> 0, ev |-> "idle" ], t)

InitialSeq(t) ==
  enterState(
    [ sequenceEvents |-> [i \in 0 .. SEQ_FRAMES - 1 |->
                            [ slot |-> 0, prechargeAt |-> 0, puffAt |-> 0,
                              recoverAt |-> 0, guardDoneAt |-> 0 ]],
      sequenceActive |-> FALSE, sequenceIndex |-> 0, sequenceStartMs |-> 0,
      puffState |-> "REST", stateStart |-> 0,
      rampActive |-> FALSE, rampFrom |-> 0, rampTo |-> 0, rampStart |-> 0,
      rampDur |-> 0, pumpDuty |-> 0, valveOpen |-> FALSE, buffer |-> << >>,
      serialOut |-> << >>, visits |-> << >>, puffFrames |-> << >>,
      recoverSince |-> << >> ],
    "REST", t)

SetSequencer(s) ==
  /\ sequenceEvents' = s.sequenceEvents
  /\ sequenceActive' = s.sequenceActive
  /\ sequenceIndex' = s.sequenceIndex
  /\ sequenceStartMs' = s.sequenceStartMs
  /\ puffState' = s.puffState
  /\ stateStart' = s.stateStart
  /\ rampActive' = s.rampActive
  /\ rampFrom' = s.rampFrom
  /\ rampTo' = s.rampTo
  /\ rampStart' = s.rampStart
  /\ rampDur' = s.rampDur
  /\ pumpDuty' = s.pumpDuty
  /\ valveOpen' = s.valveOpen
  /\ buffer' = s.buffer
  /\ serialOut' = s.serialOut
  /\ visits' = s.visits
  /\ puffFrames' = s.puffFrames
  /\ recoverSince' = s.recoverSince

\* the state at the end of setup() at counter value t, with the sequencer's
\* globals as in s
SetupWith(t, g, s) ==
  /\ millis = t
  /\ elapsed = 0
  /\ hostLines = 0
  /\ lastLine = << >>
  /\ wire = << >>
  /\ halted = FALSE
  /\ HostAtStart
  /\ pumpTest = InitialPumpTest
  /\ lastSampleMs = 0
  /\ proxSample = 0
  /\ proxValid = FALSE
  /\ det = InitialDet(t)
  /\ obs = [ enterRun |-> -1, exitRun |-> -1, at |-> 0, restarts |-> 0,
             crossPol |-> 0, crossSince |-> -1,
             polSeen |-> 0, dwellSeen |-> 0, transition |-> "none",
             fsm |-> InitialDet(t), countBefore |-> 0, blinkTimes |-> << >>,
             riseRun |-> 0, riseBlinks |-> 0, riseDips |-> 0 ]
  /\ sensor = g
  /\ sequenceEvents = s.sequenceEvents
  /\ sequenceActive = s.sequenceActive
  /\ sequenceIndex = s.sequenceIndex
  /\ sequenceStartMs = s.sequenceStartMs
  /\ puffState = s.puffState
  /\ stateStart = s.stateStart
  /\ rampActive = s.rampActive
  /\ rampFrom = s.rampFrom
  /\ rampTo = s.rampTo
  /\ rampStart = s.rampStart
  /\ rampDur = s.rampDur
  /\ pumpDuty = s.pumpDuty
  /\ valveOpen = s.valveOpen
  /\ buffer = s.buffer
  /\ serialOut = s.serialOut
  /\ visits = s.visits
  /\ puffFrames = s.puffFrames
  /\ recoverSince = s.recoverSince

\* setup(), with the sensor found, at counter value t
Setup(t, g) == SetupWith(t, g, InitialSeq(t))

\* what follows the last line end in a stream of bytes
AfterLastEol(bytes) ==
  LET eols == {k \in 1 .. Len(bytes) : IsEol(bytes[k])}
  IN  IF eols = {} THEN bytes
      ELSE SubSeq(bytes, (CHOOSE k \in eols : \A j \in eols : k >= j) + 1, Len(bytes))

\* the globals as the C runtime initializes them, before setup() has entered
\* Rest: nothing has been written to the pump or the valve pin
StaticSeq ==
  [ sequenceEvents |-> [i \in 0 .. SEQ_FRAMES - 1 |->
                          [ slot |-> 0, prechargeAt |-> 0, puffAt |-> 0,
                            recoverAt |-> 0, guardDoneAt |-> 0 ]],
    sequenceActive |-> FALSE, sequenceIndex |-> 0, sequenceStartMs |-> 0,
    puffState |-> "REST", stateStart |-> 0,
    rampActive |-> FALSE, rampFrom |-> 0, rampTo |-> 0, rampStart |-> 0,
    rampDur |-> 0, pumpDuty |-> 0, valveOpen |-> FALSE, buffer |-> << >>,
    serialOut |-> << >>, visits |-> << >>, puffFrames |-> << >>,
      recoverSince |-> << >> ]

\* setup() with vcnl4040.begin() failing at counter value t: the message is
\* printed and setup() never returns
SetupFailed(t) ==
  /\ millis = t
  /\ elapsed = 0
  /\ hostLines = 0
  /\ lastLine = << >>
  /\ wire = << >>
  /\ halted = TRUE
  /\ HostAtStart
  /\ pumpTest = InitialPumpTest
  /\ lastSampleMs = 0
  /\ proxSample = 0
  /\ proxValid = FALSE
  /\ det = InitialDet(0)
  /\ obs = [ enterRun |-> -1, exitRun |-> -1, at |-> 0, restarts |-> 0,
             crossPol |-> 0, crossSince |-> -1,
             polSeen |-> 0, dwellSeen |-> 0, transition |-> "none",
             fsm |-> InitialDet(0),
             countBefore |-> 0, blinkTimes |-> << >>,
             riseRun |-> 0, riseBlinks |-> 0, riseDips |-> 0 ]
  /\ sensor = [ level |-> 0, runLeft |-> -1, tremor |-> FALSE, phase |-> 0,
                changes |-> 0 ]
  /\ sequenceEvents = StaticSeq.sequenceEvents
  /\ sequenceActive = StaticSeq.sequenceActive
  /\ sequenceIndex = StaticSeq.sequenceIndex
  /\ sequenceStartMs = StaticSeq.sequenceStartMs
  /\ puffState = StaticSeq.puffState
  /\ stateStart = StaticSeq.stateStart
  /\ rampActive = StaticSeq.rampActive
  /\ rampFrom = StaticSeq.rampFrom
  /\ rampTo = StaticSeq.rampTo
  /\ rampStart = StaticSeq.rampStart
  /\ rampDur = StaticSeq.rampDur
  /\ pumpDuty = StaticSeq.pumpDuty
  /\ valveOpen = StaticSeq.valveOpen
  /\ buffer = StaticSeq.buffer
  /\ serialOut = << "VCNL4040 not found" >>
  /\ visits = StaticSeq.visits
  /\ puffFrames = StaticSeq.puffFrames
  /\ recoverSince = StaticSeq.recoverSince

\* the body of while (1) handing control back to setup()
SpinReturns(dt, chars) ==
  /\ halted
  /\ millis' = AddU32(millis, dt)
  /\ elapsed' = elapsed + dt
  /\ hostLines' = hostLines + (IF chars = << >> THEN 0 ELSE 1)
  /\ lastLine' = chars
  /\ wire' = AfterLastEol(wire \o chars)
  /\ halted' = FALSE
  /\ UNCHANGED << hostVars, pumpTest, seqVars, lastSampleMs, proxSample, proxValid, det, obs, sensor >>

\* one turn of while (1) { delay(10); }: time passes, the host's bytes stay
\* unread in the serial driver
Spin(dt, chars) ==
  /\ halted
  /\ millis' = AddU32(millis, dt)
  /\ elapsed' = elapsed + dt
  /\ hostLines' = hostLines + (IF chars = << >> THEN 0 ELSE 1)
  /\ lastLine' = chars
  /\ wire' = AfterLastEol(wire \o chars)
  /\ UNCHANGED << hostVars, pumpTest, halted, seqVars, lastSampleMs, proxSample, proxValid, det, obs,
                  sensor >>

\* one iteration of loop(), dt ms after the previous one: the host's bytes `chars`
\* are waiting on the serial port, random() would draw `slots`, and the signal
\* moves as the environment chooses (c) once the sample is read
Loop(dt, chars, slots, c) ==
  LET t    == AddU32(millis, dt)
      e    == elapsed + dt
      s1   == handleSerialInput(Sequencer, chars, t, slots)
      take == GeU32(SubU32(t, lastSampleMs), SAMPLE_INTERVAL_MS)
      prox == SensorValue(sensor)
      d1   == handlePresenceFSM(det, t, prox)
      d2   == IF d1.presence = "PRESENCE" THEN handleBlinkDetection(d1, t, prox)
              ELSE [d1 EXCEPT !.ev = "idle"]
      s3   == puffMachine(updateRamp(s1, t), t)
  IN  /\ millis' = t
      /\ elapsed' = e
      /\ hostLines' = hostLines + (IF chars = << >> THEN 0 ELSE 1)
      /\ lastLine' = chars
      /\ wire' = AfterLastEol(wire \o chars)
      /\ ~halted
      /\ UNCHANGED << halted, hostVars, pumpTest >>
      /\ IF take
           THEN /\ sensor.runLeft # 0
                /\ SensorChoiceOk(sensor, c)
                /\ lastSampleMs' = t
                /\ proxSample' = prox
                /\ proxValid' = TRUE
                /\ det' = d2
                /\ obs' = Observe(obs, det, d1, d2, prox, e)
                /\ sensor' = SensorAdvance(sensor, c)
           ELSE /\ c = Keep
                /\ UNCHANGED << lastSampleMs, proxSample, proxValid, det, obs, sensor >>
      /\ SetSequencer(s3)

vars == << fwVars, hostVars, pumpTest >>

\* ------------------------------------------------------------ the sequencer's runs
\* The rig idles with nothing in front of the sensor while the host sends START
\* and STOP lines; loop iterations come at uneven intervals.  With no sequence
\* running the host writes only within MaxIdleStart ms of boot, and once the rig
\* has come to rest for good (no sequence, ramp finished) it is watched no longer.
MaxElapsedSeq == 27000
MaxHostLines  == 2
MaxIdleStart  == 600
BootMillis    == 1500

SeqSteps == {200, 1600}
Quiet    == [ level |-> 0, runLeft |-> -1, tremor |-> FALSE, phase |-> 0, changes |-> 0 ]
NoSlots  == [i \in 0 .. SEQ_FRAMES - 1 |-> 0]
SlotPatterns ==
  { [i \in 0 .. SEQ_FRAMES - 1 |-> 0],
    [i \in 0 .. SEQ_FRAMES - 1 |-> IF i % 2 = 0 THEN FRAME_SLOTS - 1 ELSE 0],
    [i \in 0 .. SEQ_FRAMES - 1 |-> i % FRAME_SLOTS] }

Line(cmd) == Append(cmd, "\n")

InitSeq == Setup(BootMillis, Quiet)

Tick ==
  \E dt \in SeqSteps :
    /\ elapsed + dt <= MaxElapsedSeq
    /\ sequenceActive \/ rampActive \/ elapsed + dt <= MaxIdleStart
    /\ Loop(dt, << >>, NoSlots, Keep)

HostStart ==
  \E dt \in SeqSteps, slots \in (IF sequenceActive THEN {NoSlots} ELSE SlotPatterns) :
    /\ elapsed + dt <= MaxElapsedSeq
    /\ hostLines < MaxHostLines
    /\ sequenceActive \/ elapsed + dt <= MaxIdleStart
    /\ Loop(dt, Line(START), slots, Keep)

HostStop ==
  \E dt \in SeqSteps :
    /\ elapsed + dt <= MaxElapsedSeq
    /\ hostLines < MaxHostLines
    /\ sequenceActive \/ elapsed + dt <= MaxIdleStart
    /\ Loop(dt, Line(STOP), NoSlots, Keep)

NextSeq == Tick \/ HostStart \/ HostStop

SpecSeq == InitSeq /\ [][NextSeq]_vars

\* ------------------------------------------------------------ sequencer properties
\* the sequencer's globals in the next state
SequencerNext ==
  [ sequenceEvents |-> sequenceEvents', sequenceActive |-> sequenceActive',
    sequenceIndex |-> sequenceIndex', sequenceStartMs |-> sequenceStartMs',
    puffState |-> puffState', stateStart |-> stateStart',
    rampActive |-> rampActive', rampFrom |-> rampFrom', rampTo |-> rampTo',
    rampStart |-> rampStart', rampDur |-> rampDur', pumpDuty |-> pumpDuty',
    valveOpen |-> valveOpen', buffer |-> buffer', serialOut |-> serialOut',
    visits |-> visits', puffFrames |-> puffFrames', recoverSince |-> recoverSince' ]

\* the lifecycle lines printed from the last SEQ START on
RECURSIVE SinceStart(_)
SinceStart(out) ==
  IF out = << >> THEN << >>
  ELSE IF out[Len(out)] = "SEQ START" THEN << "SEQ START" >>
  ELSE LET r == SinceStart(SubSeq(out, 1, Len(out) - 1))
       IN  IF r = << >> THEN << >> ELSE Append(r, out[Len(out)])

Count(out, line) == Cardinality({k \in 1 .. Len(out) : out[k] = line})

CycleOrder == << "REST", "PRECHARGE", "PUFF", "RECOVER" >>

\* C1: in every reachable state the valve output is open if and only if the
\* actuator state is Puff.
C1_ValveOpenIffPuff == valveOpen <=> (puffState = "PUFF")

\* the valve is open in the Puff of the last frame of a run
C1_Witness == valveOpen /\ puffState = "PUFF" /\ sequenceIndex = SEQ_FRAMES - 1

\* C2: after an accepted START with no STOP, whatever the spacing of the loop
\* iterations, the states entered are Rest, Precharge, Puff, Recover in that
\* order over and over, the k-th Puff is entered for frame k-1, the frame index is
\* the number of completed cycles, and SEQ END is printed once, after exactly 16
\* cycles.
C2_SixteenCyclesInOrder ==
  LET run == SinceStart(serialOut) IN
  (run # << >> /\ Count(run, "SEQ CANCEL") = 0) =>
     /\ \A k \in 1 .. Len(visits) : visits[k] = CycleOrder[((k - 1) % 4) + 1]
     /\ \A k \in 1 .. Len(puffFrames) : puffFrames[k] = k - 1
     /\ Count(run, "SEQ END") <= 1
     /\ sequenceActive => /\ Count(run, "SEQ END") = 0
                          /\ sequenceIndex = (Len(visits) - 1) \div 4
     /\ Count(run, "SEQ END") = 1 =>
          /\ ~sequenceActive
          /\ Len(puffFrames) = SEQ_FRAMES
          /\ Len(visits) = 4 * SEQ_FRAMES + 1

\* a run has ended by itself after its 16 puffs
C2_Witness ==
  /\ Count(SinceStart(serialOut), "SEQ END") = 1
  /\ Len(puffFrames) = SEQ_FRAMES

\* C3: a START read while a sequence is active changes nothing but the serial
\* output, which gains one SEQ BUSY line and no SEQ START: the iteration leaves
\* the schedule, frame index, actuator state and ramp as the same iteration
\* without the command would.
C3_StartWhileActiveRejected ==
  [][ (sequenceActive /\ lastLine' = Line(START)) =>
        LET plain == puffMachine(updateRamp(Sequencer, millis'), millis')
            tail  == SubSeq(plain.serialOut, Len(serialOut) + 1, Len(plain.serialOut))
        IN  SequencerNext =
              [plain EXCEPT !.serialOut = Append(serialOut, "SEQ BUSY") \o tail] ]_vars

\* a START was refused during a Puff and the run went on into later frames
C3_Witness ==
  /\ Count(serialOut, "SEQ BUSY") = 1
  /\ Count(serialOut, "SEQ START") = 1
  /\ sequenceActive /\ sequenceIndex >= 2

\* C4: a STOP read while a sequence is active leaves, in the same iteration, the
\* sequence inactive, the actuator in Rest with the valve closed and one more
\* SEQ CANCEL line; while no sequence is active the actuator stays in Rest with
\* the valve closed; a STOP with no active sequence leaves what the same
\* iteration without the command would, and prints nothing.
C4_StopCancelsAtOnce ==
  /\ [](~sequenceActive => (puffState = "REST" /\ ~valveOpen))
  /\ [][ lastLine' = Line(STOP) =>
           IF sequenceActive
             THEN /\ ~sequenceActive'
                  /\ puffState' = "REST"
                  /\ ~valveOpen'
                  /\ serialOut' = Append(serialOut, "SEQ CANCEL")
             ELSE SequencerNext = puffMachine(updateRamp(Sequencer, millis'), millis') ]_vars

\* a STOP arrived while the valve was open
C4_Witness ==
  /\ lastLine = Line(STOP)
  /\ Len(visits) >= 2
  /\ visits[Len(visits) - 1] = "PUFF" /\ visits[Len(visits)] = "REST"
  /\ ~sequenceActive /\ ~valveOpen
  /\ serialOut[Len(serialOut)] = "SEQ CANCEL"

\* ------------------------------------------------------------ the presence gate's runs
\* Something moves in and out of the sensor's range: the signal steps between a
\* level at the exit threshold, one between the thresholds and one at the enter
\* threshold, staying GateRuns samples on each.  loop() comes round every
\* GateStep ms, so every other iteration finds the sample interval not yet over.
MaxGateChanges == 3
GateStep   == 3
GateLevels == {PRESENCE_EXIT, 7, PRESENCE_ENTER}
GateRuns   == {3, 8, 51}

Signal(level, run, tremor) ==
  [ level |-> level, runLeft |-> run, tremor |-> tremor, phase |-> 0, changes |-> 0 ]

Change(level, run, tremor) ==
  [ kind |-> "change", level |-> level, run |-> run, tremor |-> tremor ]

InitGate ==
  \E level \in GateLevels, run \in GateRuns :
    Setup(BootMillis, Signal(level, run, FALSE))

GateHold == Loop(GateStep, << >>, NoSlots, Keep)

GateMove ==
  \E level \in GateLevels \ {sensor.level}, run \in GateRuns :
    /\ sensor.changes < MaxGateChanges
    /\ Loop(GateStep, << >>, NoSlots, Change(level, run, FALSE))

NextGate == GateHold \/ GateMove

SpecGate == InitGate /\ [][NextGate]_vars

\* ------------------------------------------------------------ the blink detector's runs
\* A target sits at BlinkBase in front of the sensor from boot, and after
\* BlinkSettle samples the signal steps between levels BlinkLevels (out of range,
\* the target, the target with the eyelid closed), staying BlinkRuns samples on
\* each.  loop() comes round once per sample interval.
MaxBlinkChanges == 4
BlinkBase   == 30
BlinkLevels == {3, BlinkBase, 53}
BlinkSettle == {20, 95}
BlinkRuns   == {2, 5, 61}

InitBlink ==
  \E run \in BlinkSettle : Setup(BootMillis, Signal(BlinkBase, run, FALSE))

BlinkHold == Loop(SAMPLE_INTERVAL_MS, << >>, NoSlots, Keep)

BlinkMove ==
  \E level \in BlinkLevels \ {sensor.level}, run \in BlinkRuns :
    /\ sensor.changes < MaxBlinkChanges
    /\ Loop(SAMPLE_INTERVAL_MS, << >>, NoSlots, Change(level, run, FALSE))

NextBlink == BlinkHold \/ BlinkMove

SpecBlink == InitBlink /\ [][NextBlink]_vars

\* ------------------------------------------------------------ a trembling target
\* The target comes into range at BlinkBase, trembles by +-TremorAmp around it for
\* GapTremor samples, and then the signal steps between the levels GapLevels,
\* staying GapRuns samples on each.
MaxGapChanges == 5
GapEntry  == 9
GapTremor == {107, 108}
GapLevels == {41, 51, 53, 97}
GapRuns   == {1, 7}

InitGap == Setup(BootMillis, Signal(BlinkBase, GapEntry, FALSE))

GapHold == Loop(SAMPLE_INTERVAL_MS, << >>, NoSlots, Keep)

GapTremble ==
  \E run \in GapTremor :
    /\ sensor.changes = 0
    /\ Loop(SAMPLE_INTERVAL_MS, << >>, NoSlots, Change(BlinkBase, run, TRUE))

GapMove ==
  \E level \in GapLevels, run \in GapRuns :
    /\ sensor.changes > 0
    /\ sensor.changes < MaxGapChanges
    /\ level # sensor.level \/ sensor.tremor
    /\ Loop(SAMPLE_INTERVAL_MS, << >>, NoSlots, Change(level, run, FALSE))

NextGap == GapHold \/ GapTremble \/ GapMove

SpecGap == InitGap /\ [][NextGap]_vars

\* ------------------------------------------------------------ detector properties
\* C5: any two consecutive confirmed blinks are at least REFRACTORY_MS apart,
\* whatever presence transitions come between them.
C5_BlinksRefractoryApart ==
  \A k \in 2 .. Len(obs.blinkTimes) :
    obs.blinkTimes[k] - obs.blinkTimes[k - 1] >= REFRACTORY_MS

\* two blinks have been confirmed
C5_Witness == Len(obs.blinkTimes) >= 2 /\ det.blinkCount = Len(obs.blinkTimes)

\* C6: the blink counter goes up only on a sample that a crossing of one polarity,
\* evaluated on every sample since it began and never released, has lasted at
\* least MIN_CROSS_MS up to; a crossing with a sample in it that was not evaluated
\* (confidence under the threshold) does not count as one.
C6_BlinkNeedsContinuousCrossing ==
  det.blinkCount # obs.countBefore =>
    /\ obs.polSeen # 0
    /\ obs.polSeen = det.blinkPolarity
    /\ obs.dwellSeen >= MIN_CROSS_MS

\* C7: a blink is confirmed only on a sample whose own confidence, computed on
\* that sample, is at least CONF_REQUIRED; while the confidence of a presence
\* period has not got there, the counter stands still.
C7_BlinkOnlyWhenConfident ==
  det.blinkCount # obs.countBefore =>
    /\ det.ev = "blink"
    /\ det.conf >= CONF_REQUIRED

\* a blink was confirmed on the last sample, and confidence was short of full
C7_Witness ==
  /\ det.blinkCount = obs.countBefore + 1
  /\ det.ev = "blink"
  /\ det.conf < FP

\* C8: Idle -> Present happens only on a sample that ends an unbroken run of
\* samples >= PRESENCE_ENTER, taken while idle, whose first sample lies at least
\* ENTER_HOLD_MS back; a sample under the threshold ends the run.
C8_EnterNeedsFullHold ==
  obs.transition = "enter" =>
    /\ obs.enterRun # -1
    /\ obs.at - obs.enterRun >= ENTER_HOLD_MS

\* presence was entered after an earlier run had been broken off
C8_Witness ==
  /\ obs.transition = "enter"
  /\ obs.restarts >= 1
  /\ det.presence = "PRESENCE"

\* C9: Present -> Idle happens only on a sample that ends an unbroken run of
\* samples <= PRESENCE_EXIT, taken while present, whose first sample lies at least
\* EXIT_HOLD_MS back; the samples of the hold that led into Present are no part
\* of that run.
C9_ExitNeedsFullHold ==
  obs.transition = "exit" =>
    /\ obs.exitRun # -1
    /\ obs.at - obs.exitRun >= EXIT_HOLD_MS

\* presence was left after an earlier run had been broken off
C9_Witness ==
  /\ obs.transition = "exit"
  /\ obs.restarts >= 1
  /\ det.presence = "IDLE"

\* C10: on a sample where the presence state changes, handlePresenceFSM leaves
\* the baseline uninitialized, confidence and sample count at zero, the crossing
\* state (beyondZ, polarity, crossing start) cleared, and the blink counter where
\* it was; the counter is still there when the sample is done.
C10_TransitionResetsDetector ==
  obs.transition # "none" =>
    /\ ~obs.fsm.statsInit
    /\ obs.fsm.conf = 0
    /\ obs.fsm.sampleCount = 0
    /\ ~obs.fsm.beyondZ
    /\ obs.fsm.devPolarity = 0
    /\ obs.fsm.crossStartMs = 0
    /\ obs.fsm.blinkCount = obs.countBefore
    /\ det.blinkCount = obs.countBefore

\* presence was left with blinks on the counter
C10_Witness ==
  /\ obs.transition = "exit"
  /\ obs.countBefore >= 1
  /\ det.blinkCount = obs.countBefore

\* ------------------------------------------------------------ a worn rig under host control
\* A target sits at BlinkBase from boot while the host starts and stops sequences.
\* loop() comes round every WearStep ms, slow enough for a whole sequence to be
\* watched; after WearSettle samples the signal steps between the levels
\* BlinkLevels, staying WearRuns samples on each.  The host writes its first line
\* within MaxIdleStart ms of boot.
MaxWearChanges == 2
MaxWearLines   == 2
MaxWearElapsed == 27400
WearStep   == 200
WearSettle == 86
WearRuns   == {2, 3, 45}

InitWear == Setup(BootMillis, Signal(BlinkBase, WearSettle, FALSE))

WearHold ==
  /\ elapsed + WearStep <= MaxWearElapsed
  /\ Loop(WearStep, << >>, NoSlots, Keep)

WearMove ==
  \E level \in BlinkLevels \ {sensor.level}, run \in WearRuns :
    /\ elapsed + WearStep <= MaxWearElapsed
    /\ sensor.changes < MaxWearChanges
    /\ Loop(WearStep, << >>, NoSlots, Change(level, run, FALSE))

WearLine ==
  \E cmd \in {START, STOP} :
    /\ elapsed + WearStep <= MaxWearElapsed
    /\ hostLines < MaxWearLines
    /\ sequenceActive \/ elapsed + WearStep <= MaxIdleStart
    /\ Loop(WearStep, Line(cmd), NoSlots, Keep)

NextWear == WearHold \/ WearMove \/ WearLine

SpecWear == InitWear /\ [][NextWear]_vars

\* C11: the blink counter never goes down: a step leaves it alone or, on a sample
\* that confirms a blink, adds one; presence transitions, START, STOP and the end
\* of a sequence do not reset it.
C11_BlinkCountMonotonic ==
  [][ \/ det'.blinkCount = det.blinkCount
      \/ det'.blinkCount = det.blinkCount + 1 /\ det'.ev = "blink" ]_vars

\* a blink is still on the counter after the sequence ended and presence was left
C11_Witness ==
  /\ det.blinkCount >= 1
  /\ Count(serialOut, "SEQ END") = 1
  /\ det.presence = "IDLE"

\* ------------------------------------------------------------ one ramp, ticked
\* startRamp(from, to, duration) has just been called on the idle rig, for duties
\* RampDuties within 0 .. DUTY_MAX and durations RampDurations; loop() then comes
\* round at uneven intervals RampSteps and nothing else happens.
MaxRampElapsed == 150
RampDuties    == {0, 1, 500, duty_run, DUTY_MAX}
RampDurations == {0, 1, ramp_time_ms, 97}
RampSteps     == {1, 13, 30}

InitRamp ==
  \E fromDuty \in RampDuties, toDuty \in RampDuties, durationMs \in RampDurations :
    SetupWith(BootMillis, Quiet,
              startRamp(InitialSeq(BootMillis), fromDuty, toDuty, durationMs, BootMillis))

RampTick ==
  \E dt \in RampSteps :
    /\ elapsed + dt <= MaxRampElapsed
    /\ Loop(dt, << >>, NoSlots, Keep)

NextRamp == RampTick

SpecRamp == InitRamp /\ [][NextRamp]_vars

Between(x, a, b) == (a <= x /\ x <= b) \/ (b <= x /\ x <= a)

\* C12: a tick of a running ramp writes a duty between from and to that is no
\* further from `to` than the duty of the tick before; the first tick at or after
\* the duration writes exactly `to` and ends the ramp, and every earlier tick
\* leaves it running.  A ramp that is not running is left alone, with the duty
\* at `to`.
C12_RampMonotonicToTarget ==
  /\ [](~rampActive => pumpDuty = rampTo)
  /\ [][ IF rampActive
           THEN /\ Between(pumpDuty', rampFrom, rampTo)
                /\ millis # rampStart => Between(pumpDuty', pumpDuty, rampTo)
                /\ IF elapsed' >= rampDur
                     THEN pumpDuty' = rampTo /\ ~rampActive'
                     ELSE rampActive'
                /\ << rampFrom', rampTo', rampDur', rampStart' >>
                     = << rampFrom, rampTo, rampDur, rampStart >>
           ELSE pumpDuty' = pumpDuty /\ ~rampActive' ]_vars

\* a ramp was ticked part of the way and then reached its target
C12_Witness ==
  /\ ~rampActive
  /\ rampFrom # rampTo /\ rampDur = 97
  /\ pumpDuty = rampTo
  /\ elapsed >= 97 + 13

\* ------------------------------------------------------------ the first frame at full pace
\* The rig from boot with loop() coming round every few milliseconds, as it does
\* on the hardware: the host may send one START or STOP line at any iteration,
\* and the rig is watched for MaxBootElapsed ms, long enough for the first frame
\* of a sequence to come and go.
MaxBootElapsed == 900
MaxBootLines   == 2
BootSteps == {10, 30}

InitBoot == Setup(BootMillis, Quiet)

BootTick ==
  \E dt \in BootSteps :
    /\ elapsed + dt <= MaxBootElapsed
    /\ Loop(dt, << >>, NoSlots, Keep)

BootLine ==
  \E dt \in BootSteps, cmd \in {START, STOP} :
    /\ elapsed + dt <= MaxBootElapsed
    /\ hostLines < MaxBootLines
    /\ sequenceActive \/ elapsed + dt <= MaxIdleStart
    /\ Loop(dt, Line(cmd), NoSlots, Keep)

NextBoot == BootTick \/ BootLine

SpecBoot == InitBoot /\ [][NextBoot]_vars

\* C13: an iteration that finds the applied pump duty at idle and ends in Rest
\* (Rest entered at boot, on an accepted START, on Recover -> Rest after the
\* ramp-down, or Rest continuing) leaves the duty at idle.
C13_RestNeverRaisesPump ==
  [][ (pumpDuty = duty_idle /\ puffState' = "REST") => pumpDuty' = duty_idle ]_vars

\* ------------------------------------------------------------ lines of every kind
\* The host writes, between iterations LineStep ms apart, whole lines or pieces
\* of lines: the two commands (ended by "\n" or "\r"), an empty line, near
\* misses of the commands, a command followed by a zero byte and more, lines
\* longer than the command buffer, and a command split over two writes.
MaxLineElapsed == 1200
MaxLineWrites  == 3
LineStep == 200
LongPad  == 31

Pad(n) == [i \in 1 .. n |-> "x"]

LineTexts ==
  { START, STOP, << >>,
    << "s", "t", "a", "r", "t" >>, << "S", "t", "o", "p" >>,
    << " " >> \o START, STOP \o << " " >>,
    << "S", "T", "A", "R" >>, STOP \o << "P" >>,
    START \o << "NUL", "x" >>,
    Pad(LongPad) \o START, STOP \o Pad(LongPad),
    START \o << "NUL" >> \o Pad(LongPad) }

Writes ==
  { Line(l) : l \in LineTexts }
    \cup { Append(START, "\r"), << "S", "T" >>, << "A", "R", "T", "\n" >> }

InitLine == Setup(BootMillis, Quiet)

LineTick ==
  /\ elapsed + LineStep <= MaxLineElapsed
  /\ Loop(LineStep, << >>, NoSlots, Keep)

LineWrite ==
  \E bytes \in Writes :
    /\ elapsed + LineStep <= MaxLineElapsed
    /\ hostLines < MaxLineWrites
    /\ Loop(LineStep, bytes, NoSlots, Keep)

NextLine == LineTick \/ LineWrite

SpecLine == InitLine /\ [][NextLine]_vars

\* the line that the bytes read in the next state bring to its end
EndsLine == lastLine' # << >> /\ IsEol(lastLine'[Len(lastLine')])
LineEnded == wire \o SubSeq(lastLine', 1, Len(lastLine') - 1)

\* the sequencer's globals after an iteration that reads no bytes, the command
\* buffer emptied
PlainNext ==
  [puffMachine(updateRamp(Sequencer, millis'), millis') EXCEPT !.buffer = << >>]

\* the sequencer's globals after an iteration that begins by running cmd
CommandNext(cmd) ==
  LET ran == processCommand([Sequencer EXCEPT !.buffer = << >>], cmd, millis', NoSlots)
  IN  puffMachine(updateRamp(ran, millis'), millis')

\* C14: an iteration that reads the end of a line that is neither exactly START
\* nor exactly STOP leaves the schedule, frame index, actuator state, ramp and
\* serial output as the same iteration without the line would.
C14_OnlyExactCommandsAct ==
  [][ (EndsLine /\ LineEnded \notin {START, STOP}) => SequencerNext = PlainNext ]_vars

\* C15: the command buffer never holds more than BUFFER_SIZE - 1 bytes; the end of
\* a line longer than that is read like no line at all; and a well-formed START
\* or STOP line is run whatever came before it.
C15_LongLineDiscarded ==
  /\ [](Len(buffer) <= BUFFER_SIZE - 1)
  /\ [][ (EndsLine /\ Len(LineEnded) > BUFFER_SIZE - 1) => SequencerNext = PlainNext ]_vars
  /\ [][ (EndsLine /\ LineEnded \in {START, STOP}) =>
           SequencerNext = CommandNext(LineEnded) ]_vars

\* ------------------------------------------------------------ boot with or without the sensor
\* vcnl4040.begin() succeeds or fails at boot; either way the host goes on
\* writing START and STOP lines, and time passes in steps of HaltStep ms.
MaxHaltElapsed == 2400
MaxHaltLines   == 3
HaltStep == 200

InitHalt == Setup(BootMillis, Quiet) \/ SetupFailed(BootMillis)

HaltSpin ==
  \E bytes \in {<< >>, Line(START), Line(STOP)} :
    /\ elapsed + HaltStep <= MaxHaltElapsed
    /\ bytes # << >> => hostLines < MaxHaltLines
    /\ Spin(HaltStep, bytes)

HaltLoop ==
  \E bytes \in {<< >>, Line(START), Line(STOP)} :
    /\ elapsed + HaltStep <= MaxHaltElapsed
    /\ bytes # << >> => hostLines < MaxHaltLines
    /\ Loop(HaltStep, bytes, NoSlots, Keep)

NextHalt == HaltSpin \/ HaltLoop

SpecHalt == InitHalt /\ [][NextHalt]_vars

\* C16: once setup() has halted on the missing sensor it stays halted; the valve
\* is closed and the pump duty 0, no sample is taken, and nothing the host writes
\* is read: every global of the sequencer and the detector stays as it is and
\* nothing more is printed.
C16_SensorFailureHalts ==
  /\ [](halted => (~valveOpen /\ pumpDuty = 0 /\ puffState = "REST"
                     /\ ~sequenceActive /\ ~proxValid
                     /\ serialOut = << "VCNL4040 not found" >>))
  /\ [][ halted => (halted' /\ SequencerNext = Sequencer /\ det' = det) ]_vars

\* the halted rig has been sent a START and a STOP
C16_Witness ==
  /\ halted
  /\ hostLines = MaxHaltLines
  /\ lastLine = Line(STOP)
  /\ elapsed >= 3 * HaltStep

\* ------------------------------------------------------------ the schedule
\* the step accepts a START: the host's line is START with no sequence running
StartAccepted == lastLine' = Line(START) /\ ~sequenceActive

\* C17: an accepted START lays out all 16 frames from millis() + 200 ms, frame i
\* with slot s in 0..3 puffing at start + i*1600 + s*400, recovering puff_ms
\* later and done guard_ms after that; no other step writes the schedule, however
\* late the loop reaches the frames (counter not wrapping during the sequence).
C17_ScheduleAnchoredToStart ==
  /\ [][ StartAccepted =>
           /\ sequenceStartMs' = millis' + SEQUENCE_LEAD_MS
           /\ \A i \in 0 .. SEQ_FRAMES - 1 :
                LET ev == sequenceEvents'[i]
                IN  /\ ev.slot \in 0 .. FRAME_SLOTS - 1
                    /\ ev.puffAt = (millis' + SEQUENCE_LEAD_MS) + i * 1600 + ev.slot * 400
                    /\ ev.recoverAt = ev.puffAt + puff_ms
                    /\ ev.guardDoneAt = ev.recoverAt + guard_ms ]_vars
  /\ [][ ~StartAccepted =>
           /\ sequenceEvents' = sequenceEvents
           /\ sequenceActive' => sequenceStartMs' = sequenceStartMs ]_vars

\* the loop is more than a frame late for the frame it is about to start, and
\* the schedule has a frame in its last slot
C17_Witness ==
  /\ sequenceActive /\ sequenceIndex \in 3 .. SEQ_FRAMES - 1 /\ puffState = "REST"
  /\ millis > sequenceEvents[sequenceIndex].guardDoneAt
  /\ \E i \in 0 .. SEQ_FRAMES - 1 : sequenceEvents[i].slot = FRAME_SLOTS - 1
  /\ sequenceEvents[SEQ_FRAMES - 1].puffAt
       = sequenceStartMs + (SEQ_FRAMES - 1) * FRAME_DURATION_MS

\* ------------------------------------------------------------ a target arriving
\* The sensor reads 3 for two samples and then steps between 12 and 3, staying
\* EnterRuns samples on a level.  The loop runs at uneven intervals but comes
\* round in time for every sample, so samples are taken exactly
\* SAMPLE_INTERVAL_MS apart.
MaxEnterChanges == 3
EnterLow  == 3
EnterHigh == 12
EnterLead == 2
EnterSteps == {1, 4, 5}
EnterRuns  == {2, 5, 9, 12}

InitEnter == Setup(BootMillis, Signal(EnterLow, EnterLead, FALSE))

OnTime(dt) == proxValid => (millis + dt) - lastSampleMs <= SAMPLE_INTERVAL_MS

EnterHold ==
  \E dt \in EnterSteps : OnTime(dt) /\ Loop(dt, << >>, NoSlots, Keep)

EnterMove ==
  \E dt \in EnterSteps, level \in {EnterLow, EnterHigh} \ {sensor.level},
     run \in EnterRuns :
    /\ OnTime(dt)
    /\ sensor.changes < MaxEnterChanges
    /\ Loop(dt, << >>, NoSlots, Change(level, run, FALSE))

NextEnter == EnterHold \/ EnterMove

SpecEnter == InitEnter /\ [][NextEnter]_vars

\* how many samples >= PRESENCE_ENTER in a row the idle gate has seen, the last
\* sample included (samples SAMPLE_INTERVAL_MS apart)
QualifyingSamples ==
  IF obs.enterRun = -1 THEN 0
  ELSE (obs.at - obs.enterRun) \div SAMPLE_INTERVAL_MS + 1

\* C18 as stated: after the samples 3, 3 the fourth sample of 12 in a row, 5 ms
\* apart, is the one on which the gate goes to Present.
C18_PresentAtFourthSample ==
  (sensor.changes = 1 /\ obs.restarts = 0 /\ QualifyingSamples = 4)
     => obs.transition = "enter"

\* C18, amended: with samples 5 ms apart, threshold 10 and hold 40 ms the gate is
\* still Idle after each of the first eight samples >= 10 in a row (so after
\* all of 3, 3, 12, 12, 12, 12, 12) and goes to Present exactly on the ninth.
C18_PresentAtNinthSample ==
  /\ obs.transition = "enter" <=> QualifyingSamples = 9
  /\ QualifyingSamples \in 1 .. 8 => det.presence = "IDLE"
  /\ QualifyingSamples <= 9

\* 3, 3 and then nine samples of 12: the gate has just gone to Present
C18_Witness ==
  /\ obs.transition = "enter" /\ det.presence = "PRESENCE"
  /\ obs.restarts = 0 /\ sensor.changes >= 1
  /\ QualifyingSamples = 9
  /\ obs.at - obs.enterRun = ENTER_HOLD_MS

\* ------------------------------------------------------------ a rise of five samples
\* C19: five samples in a row, 5 ms apart, with a rise z-score >= Z_ENTER (2.5
\* among them), taken with confidence at the threshold or above and no refractory
\* pending at the first, confirm exactly one blink, reported as a rise; the
\* shorter runs before the fifth sample have confirmed at most that one.
C19_FiveRiseSamplesOneBlink ==
  /\ obs.riseRun = 5 => (obs.riseBlinks = 1 /\ obs.riseDips = 0)
  /\ obs.riseRun \in 1 .. 4 => (obs.riseBlinks <= 1 /\ obs.riseDips = 0)

\* the blink is confirmed on the fifth sample of a rise that began from a quiet
\* signal, 20 ms after its first sample, and the signal then falls back
C19_Witness ==
  /\ obs.riseRun = 5 /\ obs.riseBlinks = 1 /\ det.ev = "blink"
  /\ det.blinkPolarity = 1
  /\ obs.dwellSeen = MIN_CROSS_MS
  /\ sensor.level = BlinkBase

\* ------------------------------------------------------------ the sigma floor
\* A target sits in front of the sensor at SigmaHigh or one count below and
\* moves between the two levels, staying SigmaRuns samples on each: a raw signal
\* whose spread stays far under MIN_SIGMA_FLOOR, and whose second-moment
\* estimate falls behind the squared mean once the rounding of the two moving
\* averages has added up.
MaxSigmaChanges == 2
SigmaHigh == 31
SigmaRuns == {1, 40, 1900}

InitSigma ==
  \E level \in {SigmaHigh - 1, SigmaHigh}, run \in SigmaRuns :
    Setup(BootMillis, Signal(level, run, FALSE))

SigmaHold == Loop(SAMPLE_INTERVAL_MS, << >>, NoSlots, Keep)

SigmaMove ==
  \E level \in {SigmaHigh - 1, SigmaHigh} \ {sensor.level}, run \in SigmaRuns :
    /\ sensor.changes < MaxSigmaChanges
    /\ Loop(SAMPLE_INTERVAL_MS, << >>, NoSlots, Change(level, run, FALSE))

NextSigma == SigmaHold \/ SigmaMove

SpecSigma == InitSigma /\ [][NextSigma]_vars

\* the variance estimate of currentSigma before it is clipped at zero
RawVariance == det.m2_ps - MulFP(det.mean_ps, det.mean_ps)

\* C20: for every sample the sigma that handleBlinkDetection (and STATUS) divides
\* the deviation by is at least MIN_SIGMA_FLOOR, also when the estimated variance
\* is zero or negative; so no z-score exceeds the deviation divided by the floor.
C20_SigmaAtLeastFloor ==
  /\ currentSigma(det, TRUE) >= MIN_SIGMA_FLOOR
  /\ proxValid =>
       Abs(zRiseOf(det, proxSample)) * MIN_SIGMA_FLOOR
         <= Abs(proxSample * FP - det.mean_ps) * SFP

\* the detector has evaluated a sample that deviates from a baseline whose
\* estimated variance is negative
C20_Witness ==
  /\ det.presence = "PRESENCE" /\ det.statsInit
  /\ det.ev \notin {"idle", "gated", "refractory"}
  /\ RawVariance < 0
  /\ currentSigma(det, TRUE) = MIN_SIGMA_FLOOR
  /\ zRiseOf(det, proxSample) # 0

\* ------------------------------------------------------------ precharge before the puff
\* C21: an iteration that enters Puff finds the precharge ramp finished and the
\* applied pump duty at duty_run.
C21_PuffEnteredAtRunDuty ==
  [][ (puffState # "PUFF" /\ puffState' = "PUFF")
        => (~rampActive' /\ pumpDuty' = duty_run) ]_vars

\* ------------------------------------------------------------ a stalling loop
\* The host starts a sequence in the first iterations after boot; loop() comes
\* round every JitterPeriod ms, except that any iteration may be held up for
\* JitterStall ms (a blocked serial write, a slow sensor read).  The watch ends
\* MaxJitterElapsed ms after boot, in the third frame.
MaxJitterElapsed == 4400
JitterPeriod == 10
JitterStall  == 340

JitterTick ==
  \E dt \in {JitterPeriod, JitterStall} :
    /\ elapsed + dt <= MaxJitterElapsed
    /\ sequenceActive
    /\ Loop(dt, << >>, NoSlots, Keep)

JitterStart ==
  \E slots \in SlotPatterns :
    /\ ~sequenceActive /\ hostLines = 0
    /\ Loop(JitterPeriod, Line(START), slots, Keep)

NextJitter == JitterTick \/ JitterStart

SpecJitter == InitSeq /\ [][NextJitter]_vars

\* C22: Precharge is entered no sooner than guard_ms after the valve was last
\* closed by the entry of Recover.
C22_GuardBeforePrecharge ==
  [][ (puffState # "PRECHARGE" /\ puffState' = "PRECHARGE" /\ recoverSince # << >>)
        => SubU32(millis', recoverSince[1]) >= guard_ms ]_vars

\* ------------------------------------------------------------ the counter wrapping
\* The rig as loop() leaves it after a long quiet uptime: booted at BootMillis,
\* the boot ramp long over, nothing in front of the sensor and no command ever
\* since; the counter reads t (two's complement: negative values are the last
\* milliseconds before the counter wraps to 0) and a sample of 0 has just been
\* taken.  elapsed counts from this moment.
IdleWith(t, g) ==
  LET s == updateRamp(InitialSeq(BootMillis), BootMillis + ramp_time_ms)
      d == InitialDet(BootMillis)
  IN  /\ millis = t
      /\ elapsed = 0
      /\ hostLines = 0
      /\ lastLine = << >>
      /\ wire = << >>
      /\ halted = FALSE
      /\ HostAtStart
      /\ pumpTest = InitialPumpTest
      /\ lastSampleMs = t
      /\ proxSample = 0
      /\ proxValid = TRUE
      /\ det = d
      /\ obs = [ enterRun |-> -1, exitRun |-> -1, at |-> 0, restarts |-> 0,
                 crossPol |-> 0, crossSince |-> -1,
                 polSeen |-> 0, dwellSeen |-> 0, transition |-> "none",
                 fsm |-> d, countBefore |-> 0, blinkTimes |-> << >>,
                 riseRun |-> 0, riseBlinks |-> 0, riseDips |-> 0 ]
      /\ sensor = g
      /\ sequenceEvents = s.sequenceEvents
      /\ sequenceActive = s.sequenceActive
      /\ sequenceIndex = s.sequenceIndex
      /\ sequenceStartMs = s.sequenceStartMs
      /\ puffState = s.puffState
      /\ stateStart = s.stateStart
      /\ rampActive = s.rampActive
      /\ rampFrom = s.rampFrom
      /\ rampTo = s.rampTo
      /\ rampStart = s.rampStart
      /\ rampDur = s.rampDur
      /\ pumpDuty = s.pumpDuty
      /\ valveOpen = s.valveOpen
      /\ buffer = s.buffer
      /\ serialOut = s.serialOut
      /\ visits = s.visits
      /\ puffFrames = s.puffFrames
      /\ recoverSince = s.recoverSince

IdleAt(t) == IdleWith(t, Quiet)

\* The host starts one sequence WrapLead ms or less before the counter wraps,
\* or about half a sequence before, and lets it run; loop iterations come at
\* uneven intervals.
MaxWrapElapsed == 27000
WrapLead == 700
WrapHalf == 13000

InitWrap == \E t \in {-WrapLead, -WrapHalf} : IdleAt(t)

WrapTick ==
  \E dt \in SeqSteps :
    /\ elapsed + dt <= MaxWrapElapsed
    /\ sequenceActive
    /\ Loop(dt, << >>, NoSlots, Keep)

WrapStart ==
  \E slots \in SlotPatterns :
    /\ hostLines = 0
    /\ Loop(200, Line(START), slots, Keep)

NextWrap == WrapTick \/ WrapStart

SpecWrap == InitWrap /\ [][NextWrap]_vars

\* where frame i's precharge, in slot slot, lies after the sequence start in a
\* sequence that the wrap does not touch
PrechargeOffset(i, slot) ==
  i * FRAME_DURATION_MS
    + (IF slot * SLOT_DURATION_MS > precharge_ms
         THEN slot * SLOT_DURATION_MS - precharge_ms ELSE 0)

\* the time since the sequence start, as the wrapping difference
SinceSequenceStart(t) == SubU32(t, sequenceStartMs)

\* C23: a sequence that spans the wrap of the millisecond counter keeps every
\* frame's precharge, puff, recover and guard-done deadline at the offset from
\* the sequence start that it has without the wrap, enters Rest, Precharge,
\* Puff, Recover in that order, and makes no transition before its deadline.
C23_WrapKeepsSchedule ==
  /\ [](sequenceActive =>
         /\ \A i \in 0 .. SEQ_FRAMES - 1 :
              LET ev  == sequenceEvents[i]
                  puf == i * FRAME_DURATION_MS + ev.slot * SLOT_DURATION_MS
              IN  /\ SinceSequenceStart(ev.prechargeAt) = PrechargeOffset(i, ev.slot)
                  /\ SinceSequenceStart(ev.puffAt) = puf
                  /\ SinceSequenceStart(ev.recoverAt) = puf + puff_ms
                  /\ SinceSequenceStart(ev.guardDoneAt) = puf + puff_ms + guard_ms
         /\ \A k \in 1 .. Len(visits) : visits[k] = CycleOrder[((k - 1) % 4) + 1])
  /\ [][ (sequenceActive /\ sequenceActive' /\ puffState' # puffState) =>
           LET slot == sequenceEvents[sequenceIndex].slot
               puf  == sequenceIndex * FRAME_DURATION_MS + slot * SLOT_DURATION_MS
               due  == CASE puffState' = "PRECHARGE" -> PrechargeOffset(sequenceIndex, slot)
                         [] puffState' = "PUFF"      -> puf
                         [] puffState' = "RECOVER"   -> puf + puff_ms
                         [] puffState' = "REST"      -> puf + puff_ms + guard_ms
           IN  SubU32(millis', sequenceStartMs) >= due ]_vars

\* ------------------------------------------------------------ starting again
\* The host starts a sequence soon after boot, stops it at some point or lets
\* it run to its end, and on reading SEQ CANCEL or SEQ END starts another, which
\* is watched for AgainWatch ms; loop iterations come at uneven intervals.
MaxAgainElapsed == 29000
MaxAgainLines   == 3
AgainWatch      == 2000

Watched ==
  sequenceActive /\ Count(serialOut, "SEQ START") = 2
    => SubU32(millis, sequenceStartMs) < AgainWatch

AgainTick ==
  \E dt \in SeqSteps :
    /\ elapsed + dt <= MaxAgainElapsed
    /\ sequenceActive /\ Watched
    /\ Loop(dt, << >>, NoSlots, Keep)

AgainStart ==
  \E dt \in SeqSteps, slots \in SlotPatterns :
    /\ elapsed + dt <= MaxAgainElapsed
    /\ hostLines < MaxAgainLines
    /\ IF serialOut = << >> THEN elapsed + dt <= MaxIdleStart
       ELSE serialOut[Len(serialOut)] \in {"SEQ END", "SEQ CANCEL"}
    /\ Loop(dt, Line(START), slots, Keep)

AgainStop ==
  \E dt \in SeqSteps :
    /\ elapsed + dt <= MaxAgainElapsed
    /\ hostLines < MaxAgainLines
    /\ sequenceActive /\ Count(serialOut, "SEQ START") = 1
    /\ Loop(dt, Line(STOP), NoSlots, Keep)

NextAgain == AgainTick \/ AgainStart \/ AgainStop

SpecAgain == InitSeq /\ [][NextAgain]_vars

\* C24: a START read when the last lifecycle line printed is SEQ END or SEQ
\* CANCEL is accepted: the iteration prints SEQ START and leaves a sequence
\* active at frame 0, in Rest, with a schedule of 16 frames laid out from this
\* iteration's millis() + SEQUENCE_LEAD_MS.
C24_StartAfterEndAccepted ==
  [][ ( /\ serialOut # << >>
        /\ serialOut[Len(serialOut)] \in {"SEQ END", "SEQ CANCEL"}
        /\ lastLine' = Line(START) )
      => /\ serialOut' = Append(serialOut, "SEQ START")
         /\ sequenceActive' /\ sequenceIndex' = 0 /\ puffState' = "REST"
         /\ visits' = << "REST" >> /\ puffFrames' = << >>
         /\ sequenceStartMs' = AddU32(millis', SEQUENCE_LEAD_MS)
         /\ \A i \in 0 .. SEQ_FRAMES - 1 :
              /\ sequenceEvents'[i].slot \in 0 .. FRAME_SLOTS - 1
              /\ sequenceEvents'[i]
                   = FrameEvent(sequenceStartMs', i, sequenceEvents'[i].slot) ]_vars

\* a second sequence, started after the first had run to its end, has reached
\* the puff of its frame 0
C24_Witness ==
  /\ serialOut = << "SEQ START", "SEQ END", "SEQ START" >>
  /\ sequenceActive /\ sequenceIndex = 0 /\ puffState = "PUFF"
  /\ puffFrames = << 0 >>

\* ------------------------------------------------------------ the host controller's runs
\* The rig reports its state about once a second, with a proximity around
\* PROX_EXIT_LEVEL (or none while no sample is valid) and a confidence around the
\* three thresholds; an idle rig reports confidence 0.  The dashboard sends up to
\* MaxMessages start or stop requests, the rig's sequences end when they end, and
\* the serial port may close.
MaxHostElapsed   == 4500
MaxMessages      == 2
HostSteps        == {950, 1100}
HostMessageSteps == {300}

ProxSeen == { Undefined, << proxExit >>, << proxExit + 1 >> }
ConfSeen == { confExit, confExit + 1, confRearm, confRearm + 1, confStart - 1, confStart }
StatusSeen ==
  { StatusOf("IDLE", p, 0) : p \in ProxSeen }
    \cup { StatusOf("PRESENCE", pc[1], pc[2]) : pc \in ProxSeen \X ConfSeen }

InitHost == Setup(BootMillis, Quiet)

HostStatus ==
  \E dt \in HostSteps, status \in StatusSeen :
    /\ hostNow + dt <= HostEpoch + MaxHostElapsed
    /\ OnStatus(dt, status)
    /\ UNCHANGED << fwVars, pumpTest >>

HostSequenceLine == OnSequenceLine /\ UNCHANGED << fwVars, pumpTest >>

HostStartTimer == OnStartTimer /\ UNCHANGED << fwVars, pumpTest >>

HostMessage ==
  \E dt \in HostMessageSteps, type \in {"start-sequence", "stop-sequence"} :
    /\ hostNow + dt <= HostEpoch + MaxHostElapsed
    /\ hostObs.messages < MaxMessages
    /\ OnMessage(dt, type)
    /\ UNCHANGED << fwVars, pumpTest >>

HostClose == OnClose /\ UNCHANGED << fwVars, pumpTest >>

HostRigEnds == RigEnds /\ UNCHANGED << fwVars, pumpTest >>

NextHost ==
  \/ HostStatus
  \/ HostSequenceLine
  \/ HostStartTimer
  \/ HostMessage
  \/ HostClose
  \/ HostRigEnds

SpecHost == InitHost /\ [][NextHost]_vars

\* a start request made on the controller's own accord in this step
AutoStartRequested ==
  /\ controlState'.lastStart # controlState.lastStart
  /\ controlState'.lastStart # << >>
  /\ controlState'.lastStart[1] = "auto-confidence"

\* C25: the controller requests a start on its own only when it handles a STATUS
\* line with state=PRESENCE and a confidence of at least CONF_START_THRESHOLD, and
\* only while auto-start is armed, no sequence is active, no start is pending and
\* no stop is pending.
C25_AutoStartOnlyWhenArmedAndFree ==
  [][ AutoStartRequested
        => /\ hostObs'.input.kind = "status"
           /\ hostObs'.input.status.state = "PRESENCE"
           /\ hostObs'.input.status.confidence # Undefined
           /\ hostObs'.input.status.confidence[1] >= confStart
           /\ controlState.autoArmed
           /\ ~controlState.sequenceActive
           /\ ~controlState.startPending
           /\ ~controlState.stopPending ]_vars

\* an automatic start request has just been made on a STATUS line whose
\* confidence is exactly the start threshold; its dispatch timer is running
C25_Witness ==
  /\ hostObs.input.kind = "status"
  /\ hostObs.input.status.confidence = << confStart >>
  /\ controlState.lastStart = << "auto-confidence", hostNow >>
  /\ controlState.startPending
  /\ controlState.startTimer # << >>
  /\ ~controlState.autoArmed

\* C26: once a start has been requested auto-start is disarmed; it is armed again
\* only by a STATUS line that reports state=IDLE or a confidence of at most
\* CONF_REARM_THRESHOLD, and as long as it is disarmed no step makes an automatic
\* start request, whatever the confidence reported.
C26_RearmOnlyOnIdleOrLowConfidence ==
  [][ /\ (~controlState.autoArmed /\ controlState'.autoArmed)
           => /\ hostObs'.input.kind = "status"
              /\ \/ hostObs'.input.status.state = "IDLE"
                 \/ /\ hostObs'.input.status.confidence # Undefined
                    /\ hostObs'.input.status.confidence[1] <= confRearm
      /\ (controlState.autoArmed /\ ~controlState'.autoArmed)
           => controlState'.startPending /\ controlState'.startTimer # << >>
      /\ ~controlState.autoArmed => ~AutoStartRequested ]_vars

\* after a run is over, with auto-start still disarmed, a PRESENCE line at the
\* start threshold has been handled and no start has been requested
C26_Witness ==
  /\ ~controlState.autoArmed
  /\ ~controlState.sequenceActive
  /\ ~controlState.startPending
  /\ ~controlState.stopPending
  /\ controlState.startTimer = << >>
  /\ controlState.lastStart = << >>
  /\ hostObs.input.kind = "status"
  /\ hostObs.input.status.state = "PRESENCE"
  /\ hostObs.input.status.confidence = << confStart >>
  /\ rig = [ active |-> FALSE, lines |-> << >> ]

\* a STOP written in this step: requestStop is the only writer of stopPending = true
StopSent == ~controlState.stopPending /\ controlState'.stopPending

MaxPumpElapsed == 400
PumpSteps      == {10, 40}
PumpCommands ==
  { Command("SET", 0, 0, 0), Command("SET", 300, 0, 0), Command("SET", 2000, 0, 0),
    Command("BURST", 700, 50, 0), Command("RAMP", 0, 600, 100),
    Command("RAMP", 600, 0, 100), Command("RAMP", 500, 500, 0),
    Command("STOP", 0, 0, 0), Command("WAKE", 0, 0, 0), Command("INFO", 0, 0, 0) }

InitPump == Setup(BootMillis, Quiet)

PumpIdle ==
  \E dt \in PumpSteps :
    /\ SubU32(pumpTest.millis, PumpTestBoot) + dt <= MaxPumpElapsed
    /\ PumpTestLoop(dt, NoCommand)

PumpCommand ==
  \E dt \in PumpSteps, cmd \in PumpCommands :
    /\ SubU32(pumpTest.millis, PumpTestBoot) + dt <= MaxPumpElapsed
    /\ PumpTestLoop(dt, cmd)

NextPump == PumpIdle \/ PumpCommand

SpecPump == InitPump /\ [][NextPump]_vars

\* C28: an iteration of loop() that handles WAKE ends with the driver awake, and
\* with currentDuty and holdDuty as the same iteration without the command would
\* leave them, also when both are 0.
C28_WakeLeavesDriverAwake ==
  [][ pumpTest'.command.op = "WAKE"
        => LET q == pumpTestLoop(pumpTest, SubU32(pumpTest'.millis, pumpTest.millis),
                                 NoCommand)
           IN  /\ pumpTest'.driverAwake
               /\ pumpTest'.currentDuty = q.currentDuty
               /\ pumpTest'.holdDuty = q.holdDuty ]_vars

\* C29: a sample taken in presence with the confidence at CONF_REQUIRED or above
\* (so that the crossing logic runs on it) while millis() is before the refractory
\* deadline leaves beyondZ false, devPolarity 0 and crossStartMs 0, and leaves
\* blinkCount as it was, whatever its z-score.
C29_RefractorySampleLeavesIdle ==
  [][ ( /\ lastSampleMs' = millis'
        /\ obs'.fsm.presence = "PRESENCE"
        /\ det'.conf >= CONF_REQUIRED
        /\ SubU32(millis', obs'.fsm.refractoryUntilMs) < 0 )
        => /\ ~det'.beyondZ
           /\ det'.devPolarity = 0
           /\ det'.crossStartMs = 0
           /\ det'.blinkCount = det.blinkCount
           /\ det'.refractoryUntilMs = obs'.fsm.refractoryUntilMs ]_vars

\* a sample with a rise z-score of Z_ENTER or more has been taken less than
\* REFRACTORY_MS after a confirmed blink, and has left the detector idle
C29_Witness ==
  /\ det.presence = "PRESENCE"
  /\ det.conf >= CONF_REQUIRED
  /\ det.blinkCount = 1
  /\ lastSampleMs = millis
  /\ SubU32(millis, det.refractoryUntilMs) < 0
  /\ zRiseOf(det, proxSample) >= Z_ENTER
  /\ ~det.beyondZ /\ det.devPolarity = 0 /\ det.crossStartMs = 0

\* ------------------------------------------------------------ detection late in the uptime
\* The rig has idled for more than 2^31 ms (24.9 days): millis() is LateLead ms
\* short of its wrap when a wearer arrives, and the signal then moves as in the
\* blink runs.
LateLead == 1000000

InitLate == \E run \in BlinkSettle : IdleWith(-LateLead, Signal(BlinkBase, run, FALSE))

LateHold == Loop(SAMPLE_INTERVAL_MS, << >>, NoSlots, Keep)

LateMove ==
  \E level \in BlinkLevels \ {sensor.level}, run \in BlinkRuns :
    /\ sensor.changes < MaxBlinkChanges
    /\ Loop(SAMPLE_INTERVAL_MS, << >>, NoSlots, Change(level, run, FALSE))

NextLate == LateHold \/ LateMove

SpecLate == InitLate /\ [][NextLate]_vars

\* C30: a sample is suppressed as refractory only if a blink was confirmed less
\* than REFRACTORY_MS before it; with no blink in the preceding 250 ms (at boot,
\* after a presence reset) the crossing logic runs, whatever millis() reads.
C30_RefractoryOnlyAfterBlink ==
  det.ev = "refractory"
    => /\ obs.blinkTimes # << >>
       /\ obs.at - obs.blinkTimes[Len(obs.blinkTimes)] < REFRACTORY_MS

\* ------------------------------------------------------------ polarity flips
\* the sample of this step went through the crossing logic: taken in presence,
\* confidence at the threshold or above, no refractory period pending
Evaluated ==
  /\ lastSampleMs' = millis'
  /\ obs'.fsm.presence = "PRESENCE"
  /\ det'.conf >= CONF_REQUIRED
  /\ ~(SubU32(millis', obs'.fsm.refractoryUntilMs) < 0)

\* the polarity the sample of this step qualifies for (0: neither)
SamplePolarity ==
  LET z == zRiseOf(det', proxSample')
  IN  IF z >= Z_ENTER THEN 1 ELSE IF -z >= Z_ENTER THEN -1 ELSE 0

\* C31: (1) with a crossing in progress a qualifying sample of the other polarity
\* restarts it: the crossing goes on with the new polarity and crossStartMs = the
\* sample's time, and no blink is counted on that sample; (2) a crossing's start
\* time is only ever set to the time of a sample of the crossing's polarity;
\* (3) a blink is confirmed only by a sample of the polarity the crossing already
\* had, at least MIN_CROSS_MS after the crossing's start, and is reported with
\* that polarity.
C31_FlipRestartsCrossing ==
  [][ /\ ( Evaluated /\ obs'.fsm.beyondZ /\ SamplePolarity # 0
            /\ SamplePolarity # obs'.fsm.devPolarity )
           => /\ det'.beyondZ
              /\ det'.devPolarity = SamplePolarity
              /\ det'.crossStartMs = millis'
              /\ det'.blinkCount = det.blinkCount
      /\ ( lastSampleMs' = millis' /\ det'.beyondZ
            /\ (~obs'.fsm.beyondZ \/ det'.crossStartMs # obs'.fsm.crossStartMs
                  \/ det'.devPolarity # obs'.fsm.devPolarity) )
           => /\ Evaluated
              /\ det'.crossStartMs = millis'
              /\ det'.devPolarity = SamplePolarity
              /\ SamplePolarity # 0
      /\ det'.blinkCount # det.blinkCount
           => /\ Evaluated
              /\ obs'.fsm.beyondZ
              /\ SamplePolarity = obs'.fsm.devPolarity
              /\ det'.blinkPolarity = SamplePolarity
              /\ GeU32(SubU32(millis', obs'.fsm.crossStartMs), MIN_CROSS_MS) ]_vars

\* a rise crossing was in progress when a sample low enough for a dip came: the
\* crossing has been restarted as a dip at that sample's time
C31_Witness ==
  /\ obs.fsm.beyondZ /\ obs.fsm.devPolarity = 1
  /\ det.beyondZ /\ det.devPolarity = -1
  /\ det.crossStartMs = millis
  /\ lastSampleMs = millis
  /\ det.blinkCount = obs.countBefore

\* ------------------------------------------------------------ ticks without a frame
\* The state machine of loop() applied to sequencer states drawn from a bounded
\* set: any actuator state, with a schedule in memory, the sequence active or
\* not, and the frame index at the first frame, the last, or past the last.  No
\* command arrives; loop iterations come at uneven intervals.
MaxForcedElapsed == 700
ForcedIndexes == {0, SEQ_FRAMES - 1, SEQ_FRAMES}

ForcedSeq(st, active, index, slots) ==
  LET a == startProgrammedSequence(InitialSeq(BootMillis), BootMillis, slots)
      b == enterState(a, st, BootMillis)
  IN  [b EXCEPT !.sequenceActive = active, !.sequenceIndex = index]

InitForced ==
  \E st \in PuffStates, active \in BOOLEAN, index \in ForcedIndexes,
     slots \in SlotPatterns :
    SetupWith(BootMillis, Quiet, ForcedSeq(st, active, index, slots))

ForcedTick ==
  \E dt \in BootSteps :
    /\ elapsed + dt <= MaxForcedElapsed
    /\ Loop(dt, << >>, NoSlots, Keep)

NextForced == ForcedTick

SpecForced == InitForced /\ [][NextForced]_vars

NoActiveFrame == ~(sequenceActive /\ sequenceIndex < SEQ_FRAMES)

\* C32: a tick that finds the actuator in Precharge, Puff or Recover with no
\* active frame (no sequence active, or the frame index past the last frame)
\* leaves it in Rest, entered on that tick, with the valve closed.
C32_NoFrameForcesRest ==
  [][ ( millis' # millis /\ puffState \in {"PRECHARGE", "PUFF", "RECOVER"}
        /\ NoActiveFrame )
        => /\ puffState' = "REST"
           /\ stateStart' = millis'
           /\ ~valveOpen'
           /\ visits' = Append(visits, "REST") ]_vars

\* the tick found the valve open in Puff with no sequence active, and went to Rest
C32_Witness ==
  /\ ~sequenceActive
  /\ Len(visits) >= 2
  /\ visits[Len(visits) - 1] = "PUFF"
  /\ visits[Len(visits)] = "REST"
  /\ puffState = "REST"
  /\ ~valveOpen
  /\ stateStart = millis
  /\ elapsed > 0
  /\ Count(serialOut, "SEQ END") = 0
  /\ Count(serialOut, "SEQ CANCEL") = 0

\* ------------------------------------------------------------ a sequence left to run
\* The host sends one START and nothing else; loop() keeps being called, at
\* uneven intervals, for as long as the sequence or a ramp is running (weak
\* fairness of the tick), within MaxRunElapsed ms of boot.
MaxRunElapsed == 110000
RunSteps == {800, 1600}

RunTick ==
  \E dt \in RunSteps :
    /\ elapsed + dt <= MaxRunElapsed
    /\ sequenceActive \/ rampActive \/ elapsed + dt <= MaxIdleStart
    /\ Loop(dt, << >>, NoSlots, Keep)

RunStart ==
  \E dt \in SeqSteps, slots \in SlotPatterns :
    /\ hostLines = 0
    /\ elapsed + dt <= MaxIdleStart
    /\ Loop(dt, Line(START), slots, Keep)

NextRun == RunTick \/ RunStart

SpecRun == InitSeq /\ [][NextRun]_vars /\ WF_vars(RunTick)

Ended ==
  /\ Count(serialOut, "SEQ END") = 1
  /\ ~sequenceActive
  /\ puffState = "REST"
  /\ ~valveOpen

\* C33: a sequence that has been started, with no STOP received and loop() called
\* again and again as the clock advances, leads to SEQ END being emitted, and from
\* then on the sequence is inactive, the actuator in Rest and the valve closed.
C33_SequenceRunsToEnd ==
  /\ sequenceActive ~> Ended
  /\ [][Ended => Ended']_vars

\* the sequence has ended under the slowest loop: SEQ END more than 100 s after
\* the START
C33_Witness ==
  /\ Ended
  /\ serialOut = << "SEQ START", "SEQ END" >>
  /\ Len(puffFrames) = SEQ_FRAMES
  /\ elapsed > 100000

\* ------------------------------------------------------------ rest outside sequences
\* C34: in every reachable state with no sequence active the actuator is in Rest
\* with the valve closed; an iteration that opens the valve or enters Precharge
\* ends with a sequence active.
C34_RestUnlessActive ==
  /\ [](~sequenceActive => (puffState = "REST" /\ ~valveOpen))
  /\ [][ /\ (~valveOpen /\ valveOpen') => sequenceActive'
         /\ (puffState # "PRECHARGE" /\ puffState' = "PRECHARGE") => sequenceActive'
         /\ Len(visits') > Len(visits) =>
              \A k \in Len(visits) + 1 .. Len(visits') :
                 visits'[k] # "REST" => sequenceActive' ]_vars

\* a sequence was cancelled during a Precharge, and the actuator is at rest
C34_Witness ==
  /\ ~sequenceActive /\ puffState = "REST" /\ ~valveOpen
  /\ Len(visits) >= 2
  /\ visits[Len(visits) - 1] = "PRECHARGE" /\ visits[Len(visits)] = "REST"
  /\ serialOut[Len(serialOut)] = "SEQ CANCEL"

\* ------------------------------------------------------------ the frame index
\* C35: while a sequence is active the frame index is in 0 .. 15, and it is 0
\* whenever no sequence is active; an accepted START begins at frame 0; while the
\* same sequence stays active the index changes only by +1, and only in an
\* iteration that finds the actuator in Recover past the current frame's guard
\* deadline and leaves it in Rest.
C35_FrameIndexSteps ==
  /\ [](sequenceIndex \in 0 .. SEQ_FRAMES - 1)
  /\ [](~sequenceActive => sequenceIndex = 0)
  /\ [][ (~sequenceActive /\ sequenceActive') => sequenceIndex' = 0 ]_vars
  /\ [][ (sequenceActive /\ sequenceActive' /\ sequenceIndex' # sequenceIndex) =>
           /\ sequenceIndex' = sequenceIndex + 1
           /\ puffState = "RECOVER" /\ puffState' = "REST"
           /\ Reached(millis', sequenceEvents[sequenceIndex].guardDoneAt)
           /\ sequenceEvents' = sequenceEvents ]_vars

\* the last frame has just been reached from the Recover of the one before
C35_Witness ==
  /\ sequenceActive /\ sequenceIndex = SEQ_FRAMES - 1 /\ puffState = "REST"
  /\ Len(visits) >= 2 /\ visits[Len(visits) - 1] = "RECOVER"

\* ------------------------------------------------------------ lifecycle lines
\* The host sends up to MaxLifeLines START and STOP lines in any order, at any
\* time while a sequence runs, and also right after boot and right after a
\* sequence has closed; the loop ticks at uneven intervals in between.
MaxLifeElapsed == 32000
MaxLifeLines   == 3
LifeSteps == {400, 1600}

LifeOpen ==
  \/ sequenceActive
  \/ serialOut = << >> /\ elapsed <= MaxIdleStart
  \/ serialOut # << >> /\ serialOut[Len(serialOut)] \in {"SEQ END", "SEQ CANCEL"}

LifeTick ==
  \E dt \in LifeSteps :
    /\ elapsed + dt <= MaxLifeElapsed
    /\ sequenceActive \/ elapsed + dt <= MaxIdleStart
    /\ Loop(dt, << >>, NoSlots, Keep)

LifeStart ==
  \E dt \in LifeSteps, slots \in {NoSlots} :
    /\ elapsed + dt <= MaxLifeElapsed
    /\ hostLines < MaxLifeLines
    /\ LifeOpen
    /\ Loop(dt, Line(START), slots, Keep)

LifeStop ==
  \E dt \in LifeSteps :
    /\ elapsed + dt <= MaxLifeElapsed
    /\ hostLines < MaxLifeLines
    /\ LifeOpen
    /\ Loop(dt, Line(STOP), NoSlots, Keep)

NextLife == LifeTick \/ LifeStart \/ LifeStop

SpecLife == InitSeq /\ [][NextLife]_vars

\* the SEQ START, SEQ END and SEQ CANCEL lines of the serial output, in order
Lifecycle(out) ==
  SelectSeq(out, LAMBDA l : l \in {"SEQ START", "SEQ END", "SEQ CANCEL"})

\* C36: in every reachable state the lifecycle lines printed so far alternate,
\* a SEQ START first and then one closing line (SEQ END or SEQ CANCEL) before
\* the next SEQ START, and a sequence is active exactly when the last SEQ START
\* has not been closed.
C36_StartsAndClosingsAlternate ==
  LET life == Lifecycle(serialOut) IN
  /\ \A k \in 1 .. Len(life) :
        IF k % 2 = 1 THEN life[k] = "SEQ START"
        ELSE life[k] \in {"SEQ END", "SEQ CANCEL"}
  /\ sequenceActive <=> (Len(life) % 2 = 1)

\* one sequence was cancelled and the next, started after it, ran to its end
C36_Witness ==
  /\ Lifecycle(serialOut) = << "SEQ START", "SEQ CANCEL", "SEQ START", "SEQ END" >>
  /\ ~sequenceActive

\* ------------------------------------------------------------ frames do not overlap
\* the start of frame i of the schedule in force
FrameBase(i) == sequenceStartMs + i * FRAME_DURATION_MS

\* C37: in the schedule of every active sequence (the clock not wrapping within
\* it), for each frame i the slot is in 0 .. 3, frameBase_i <= prechargeAt_i <=
\* puffAt_i < recoverAt_i < guardDoneAt_i, prechargeAt_i is the larger of
\* frameBase_i and puffAt_i - precharge_ms, and guardDoneAt_i <=
\* prechargeAt_(i+1).
C37_FramesDoNotOverlap ==
  sequenceActive =>
    \A i \in 0 .. SEQ_FRAMES - 1 :
      LET ev == sequenceEvents[i] IN
      /\ ev.slot \in 0 .. FRAME_SLOTS - 1
      /\ FrameBase(i) <= ev.prechargeAt
      /\ ev.prechargeAt <= ev.puffAt
      /\ ev.puffAt < ev.recoverAt
      /\ ev.recoverAt < ev.guardDoneAt
      /\ ev.prechargeAt = IF FrameBase(i) >= ev.puffAt - precharge_ms
                             THEN FrameBase(i) ELSE ev.puffAt - precharge_ms
      /\ i + 1 < SEQ_FRAMES => ev.guardDoneAt <= sequenceEvents[i + 1].prechargeAt

\* a schedule with a frame in the last slot whose guard ends exactly where the
\* next frame's precharge begins, and a frame whose precharge starts
\* precharge_ms before its puff, later than the frame's start
C37_Witness ==
  /\ sequenceActive
  /\ \E i \in 0 .. SEQ_FRAMES - 2 :
        /\ sequenceEvents[i].slot = FRAME_SLOTS - 1
        /\ sequenceEvents[i].guardDoneAt = sequenceEvents[i + 1].prechargeAt
  /\ \E i \in 0 .. SEQ_FRAMES - 1 :
        /\ sequenceEvents[i].prechargeAt = sequenceEvents[i].puffAt - precharge_ms
        /\ sequenceEvents[i].prechargeAt > FrameBase(i)

\* ------------------------------------------------------------ pending flags
\* The controller and the rig with the serial port staying open.  Whatever can
\* happen does: STATUS lines keep arriving, a SEQ line on its way is delivered, an
\* armed dispatch timer fires, a running sequence reaches its end.  Dashboard
\* messages come or not as the user pleases.
NextPending ==
  \/ HostStatus
  \/ HostSequenceLine
  \/ HostStartTimer
  \/ HostMessage
  \/ HostRigEnds

SpecPending ==
  /\ InitHost /\ [][NextPending]_vars
  /\ WF_vars(HostStatus) /\ WF_vars(HostSequenceLine)
  /\ WF_vars(HostStartTimer) /\ WF_vars(HostRigEnds)

\* C38: a pending flag does not stay set for ever: whenever startPending is set
\* it is later clear, and whenever stopPending is set it is later clear.
C38_PendingFlagsClear ==
  /\ controlState.startPending ~> ~controlState.startPending
  /\ controlState.stopPending ~> ~controlState.stopPending

\* ------------------------------------------------------------ one START a request
\* a handler has just written the command line cmd
Wrote(cmd) ==
  /\ controlState' # controlState
  /\ \E k \in 1 .. Len(hostObs'.wrote) : hostObs'.wrote[k] = cmd

\* a start request has just been accepted: its dispatch timer is armed
StartRequestAccepted ==
  /\ controlState'.startTimer # << >>
  /\ controlState'.startTimer # controlState.startTimer

C40_DutyOnlyWhileAwake == pumpTest.currentDuty > 0 => pumpTest.driverAwake

====
